---- MODULE Spec2Model ----
(***************************************************************************)
(* A model of the baldnes-emulator core: the microcoded 6502 interpreter    *)
(* (cpu/cpu.rs, cpu/registers.rs, cpu/operations.rs,                        *)
(* cpu/micro_instructions.rs) driven one step() at a time over the byte     *)
(* memory its tests give it, and the address-decoded Bus (bus.rs).          *)
(*                                                                          *)
(* Integers keep the width of the Rust types: u8 values live in 0..255,     *)
(* u16 values in 0..65535.  An arithmetic overflow of `+` / `+=` aborts the *)
(* program when the build checks overflow (debug profile) and wraps when it *)
(* does not (release profile); overflow_checks is the build's choice.       *)
(***************************************************************************)
EXTENDS Integers, Sequences, FiniteSets, TLC

VARIABLES
    \* ---- struct CPU (cpu/cpu.rs) ----
    bus,                        \* the TestBus memory cells observed so far
    registers,                  \* struct Registers
    state,                      \* CPUState
    fetching_operation,         \* MicroInstructionSequence of the fetch phase
    current_micro_instruction,  \* Option<MicroInstruction>
    \* ---- the run ----
    overflow_checks,            \* TRUE: overflow panics, FALSE: it wraps
    panicked,                   \* a panic!() or a failed check ended the run
    bus_log,                    \* the bus accesses of the last step()
    steps,                      \* step() calls made so far
    completed,                  \* instructions whose last microinstruction ran
    fetch_pc,                   \* program counter when the opcode was read
    fetch_steps,                \* value of steps when the opcode read began
    start_registers,            \* the registers the host handed to the first step()
    \* ---- struct Bus (bus.rs) ----
    mappings,                   \* Vec<usize>: address -> device index
    devices,                    \* Vec<Box<dyn Addressable>>
    registered,                 \* the ranges given to register(), in order
    last_access,                \* the last read()/write() and what it did
    accesses,                   \* read()/write() calls made so far
    \* ---- struct PPU (ppu/ppu.rs) ----
    ppu,                        \* struct PPU, with the Bus its PPUData owns
    ppu_last,                   \* the last read()/write() of the PPU and its result
    ppu_ops,                    \* read()/write() calls made on the PPU so far
    ppu_addr_writes,            \* writes that reached $2006 so far
    \* ---- one Addressable device on its own (vram.rs, palette_ram.rs, memory.rs) ----
    dev,                        \* the VRAM, PaletteRAM or Memory
    device_last,                \* the last read()/write() of the device and its result
    device_ops,                 \* read()/write() calls made on the device so far
    \* ---- the cartridge loader (cartridge/) ----
    file,                       \* the ROM file: its 16 header bytes and its length
    cartridge,                  \* what the last from_file() call returned
    chr_rom_access              \* what the last chr_rom() call returned

cpu_vars == <<bus, registers, state, fetching_operation, current_micro_instruction,
              overflow_checks, panicked, bus_log, steps, completed, fetch_pc, fetch_steps,
              start_registers>>
bus_vars == <<mappings, devices, registered, last_access, accesses>>
ppu_vars == <<ppu, ppu_last, ppu_ops, ppu_addr_writes>>
device_vars == <<dev, device_last, device_ops>>
loader_vars == <<file, cartridge, chr_rom_access>>
vars == <<cpu_vars, bus_vars, ppu_vars, device_vars, loader_vars>>

(***************************************************************************)
(* Bounds of the model.                                                     *)
(***************************************************************************)
\* instructions a run executes
MaxInstr == 1
\* contents a memory cell may hold before the program touches it
ByteSamples == {\h00, \h44, \hFF}
\* opcode bytes outside the opcode table
UnknownOpcodes == {\h02, \hFF}
\* register values the host sets through the public fields before stepping
AccSamples == {\h37, \h80}
IndexSamples == {\h01, \hFF}
\* status bytes the host sets with set_flag() before stepping
StatusSamples == {\h00, \hFF}
\* the Bus: addresses it decodes (the source's ADDRESS_SPACE, scaled down),
\* devices a run registers, read()/write() calls a run makes
ADDRESS_SPACE == 3
MaxDevices == 2
MaxAccesses == 2
\* the byte the memory of the 1st, 2nd, 3rd .. registered device is filled
\* with, and the byte written
DeviceFills == <<\hA5, \h3C, \h77>>
WriteSamples == {\h5A}
\* the PPU: read()/write() calls a run makes, the CPU-side addresses it reads
\* and writes (registers, mirrors of $2007, $2006 and $2001, unimplemented
\* ones) and the bytes it writes
MaxPpuOps == 4
PpuReadAddresses == {\h2002, \h2003, \h2007, \h2247}
PpuWriteAddresses == {\h2000, \h2006, \h2007, \h2009, \h3FFE, \h4001}
PpuDataSamples == {\h23, \h06, \h66, \hFF}
\* read() / write() calls a host makes on one device
MaxDeviceOps == 3
\* PPU-bus addresses tried on the VRAM: each quadrant, both ends, the mirror
VramAddresses == {\h2000, \h2001, \h2400, \h2800, \h2C00, \h2FFF, \h3000, \h3EFF}
\* PPU-bus addresses tried on the palette RAM
PaletteAddresses == {\h3F00, \h3F01, \h3F04, \h3F10, \h3F1F, \h3F20, \h3F30, \h3FFF}
\* CPU addresses tried on the internal RAM
MemoryAddresses == {\h0000, \h07FF, \h0800, \h1FFF}
\* sizes Memory::new is given
MemorySizes == {\h0800, \h2000}
\* bytes written to a device
DeviceDataSamples == {\h12, \h34}
\* bytes 0..4 of the ROM files tried: the magic, and two corrupted magics
MagicSamples == {<<\h4E, \h45, \h53, \h1A>>, <<\h4E, \h45, \h53, \h00>>,
                 <<\h00, \h45, \h53, \h1A>>}
\* PRG / CHR bank counts (header bytes 4 and 5) of the ROM files tried
MaxBanks == 2
\* header byte 6: plain, and trainer + vertical mirroring + mapper nibble
Flags6Samples == {\h00, \h15}
\* header byte 7: each value of the format bits 2..3, and a mapper nibble
Flags7Samples == {\h00, \h04, \h08, \h0C, \h28}

Byte == 0..255

(***************************************************************************)
(* Option<T>: None is the empty sequence, Some(v) the one-element sequence. *)
(***************************************************************************)
None == <<>>
Some(v) == <<v>>
IsSome(o) == o # <<>>
Unwrap(o) == o[1]

(***************************************************************************)
(* Bit arithmetic on u8.                                                    *)
(***************************************************************************)
BitAt(v, i) == (v \div (2 ^ i)) % 2

RECURSIVE BitAnd(_, _, _)
BitAnd(a, b, i) ==
    IF i = 8 THEN 0 ELSE (BitAt(a, i) * BitAt(b, i)) * (2 ^ i) + BitAnd(a, b, i + 1)

RECURSIVE BitOr(_, _, _)
BitOr(a, b, i) ==
    IF i = 8 THEN 0
    ELSE (IF BitAt(a, i) + BitAt(b, i) > 0 THEN 1 ELSE 0) * (2 ^ i) + BitOr(a, b, i + 1)

RECURSIVE BitXor(_, _, _)
BitXor(a, b, i) ==
    IF i = 8 THEN 0
    ELSE ((BitAt(a, i) + BitAt(b, i)) % 2) * (2 ^ i) + BitXor(a, b, i + 1)

\* u8 + u8 in Rust: the sum when it fits; otherwise a panic under overflow
\* checks and the wrapped sum without them.
AddU8Overflows(a, b) == a + b > 255
WrapU8(v) == v % 256

(***************************************************************************)
(* cpu/micro_instructions.rs: MicroInstructionSequence                      *)
(***************************************************************************)
MicroInstructionSequence(s) == [sequence |-> s, idx |-> 0]
\* self.sequence[self.idx]: Rust indexes from 0
get_micro_instruction(ms) == ms.sequence[ms.idx + 1]
next(ms) == [ms EXCEPT !.idx = @ + 1]
is_completed(ms) == ms.idx >= Len(ms.sequence)
\* reset that leaves the cursor where it is
reset_keeps_cursor(ms) == ms
reset(ms) == [ms EXCEPT !.idx = 0]

(***************************************************************************)
(* cpu/cpu.rs: CPUFlag::value                                               *)
(***************************************************************************)
CPUFlag ==
    [CarryBit |-> 1, Zero |-> 2, InterruptDisable |-> 4, DecimalMode |-> 8,
     Break |-> 16, Unused |-> 32, Overflow |-> 64, Negative |-> 128]

(***************************************************************************)
(* cpu/operations.rs: the addressing microsequences of                     *)
(* Operation::get_micro_instructions                                        *)
(***************************************************************************)
zero_page_addressing == MicroInstructionSequence(<<"ReadAdl", "ReadZeroPage">>)
zero_page_x_addressing ==
    MicroInstructionSequence(<<"ReadBal", "Empty", "ReadZeroPageBalX">>)
zero_page_y_addressing ==
    MicroInstructionSequence(<<"ReadBal", "Empty", "ReadZeroPageBalY">>)
absolute_addressing ==
    MicroInstructionSequence(<<"ReadAdl", "ReadAdh", "ReadAbsolute">>)
indirect_x_addressing ==
    MicroInstructionSequence(
        <<"ReadBal", "Empty", "ReadAdlIndirectBal", "ReadAdhIndirectBal", "ReadAbsolute">>)
absolute_x_addressing ==
    MicroInstructionSequence(<<"ReadBal", "ReadBah", "ReadAdlAdhAbsoluteX">>)
absolute_y_addressing ==
    MicroInstructionSequence(<<"ReadBal", "ReadBah", "ReadAdlAdhAbsoluteY">>)
indirect_y_addressing ==
    MicroInstructionSequence(
        <<"ReadIal", "ReadBalIndirectIal", "ReadBahIndirectIal", "ReadAdlAdhAbsoluteY">>)
immediate_addressing == MicroInstructionSequence(<<"ImmediateRead">>)

(***************************************************************************)
(* cpu/operations.rs: Operation::get_micro_instructions, one entry per     *)
(* match arm.                                                               *)
(***************************************************************************)
MicroInstructionsTable ==
    ("AslA" :> [addressing_sequence |-> None,
        operation_sequence |-> MicroInstructionSequence(<<"ShiftLeftAccumulator">>)]) @@
    ("AslZeroPage" :> [addressing_sequence |-> Some(zero_page_addressing),
        operation_sequence |-> MicroInstructionSequence(<<"ShiftLeftMemoryBuffer", "WriteZeroPage">>)]) @@
    ("AslZeroPageX" :> [addressing_sequence |-> Some(zero_page_x_addressing),
        operation_sequence |-> MicroInstructionSequence(<<"ShiftLeftMemoryBuffer", "WriteZeroPageBalX">>)]) @@
    ("AslAbsolute" :> [addressing_sequence |-> Some(absolute_addressing),
        operation_sequence |-> MicroInstructionSequence(<<"ShiftLeftMemoryBuffer", "WriteAbsolute">>)]) @@
    ("IncMemZeroPage" :> [addressing_sequence |-> Some(zero_page_addressing),
        operation_sequence |-> MicroInstructionSequence(<<"IncrementMemoryBuffer", "WriteZeroPage">>)]) @@
    ("IncMemZeroPageX" :> [addressing_sequence |-> Some(zero_page_x_addressing),
        operation_sequence |-> MicroInstructionSequence(<<"IncrementMemoryBuffer", "WriteZeroPageBalX">>)]) @@
    ("IncMemAbsolute" :> [addressing_sequence |-> Some(absolute_addressing),
        operation_sequence |-> MicroInstructionSequence(<<"IncrementMemoryBuffer", "WriteAbsolute">>)]) @@
    ("IncMemAbsoluteX" :> [addressing_sequence |-> Some(absolute_x_addressing),
        operation_sequence |-> MicroInstructionSequence(<<"IncrementMemoryBuffer", "WriteAbsolute">>)]) @@
    ("IncX" :> [addressing_sequence |-> None,
        operation_sequence |-> MicroInstructionSequence(<<"IncrementX">>)]) @@
    ("IncY" :> [addressing_sequence |-> None,
        operation_sequence |-> MicroInstructionSequence(<<"IncrementY">>)]) @@
    ("DecMemZeroPage" :> [addressing_sequence |-> Some(zero_page_addressing),
        operation_sequence |-> MicroInstructionSequence(<<"DecrementMemoryBuffer", "WriteZeroPage">>)]) @@
    ("DecMemZeroPageX" :> [addressing_sequence |-> Some(zero_page_x_addressing),
        operation_sequence |-> MicroInstructionSequence(<<"DecrementMemoryBuffer", "WriteZeroPageBalX">>)]) @@
    ("DecMemAbsolute" :> [addressing_sequence |-> Some(absolute_addressing),
        operation_sequence |-> MicroInstructionSequence(<<"DecrementMemoryBuffer", "WriteAbsolute">>)]) @@
    ("DecMemAbsoluteX" :> [addressing_sequence |-> Some(absolute_x_addressing),
        operation_sequence |-> MicroInstructionSequence(<<"DecrementMemoryBuffer", "WriteAbsolute">>)]) @@
    ("DecX" :> [addressing_sequence |-> None,
        operation_sequence |-> MicroInstructionSequence(<<"DecrementX">>)]) @@
    ("DecY" :> [addressing_sequence |-> None,
        operation_sequence |-> MicroInstructionSequence(<<"DecrementY">>)]) @@
    ("LoadAccImm" :> [addressing_sequence |-> Some(immediate_addressing),
        operation_sequence |-> MicroInstructionSequence(<<"LoadAccumulator">>)]) @@
    ("LoadAccZeroPage" :> [addressing_sequence |-> Some(zero_page_addressing),
        operation_sequence |-> MicroInstructionSequence(<<"LoadAccumulator">>)]) @@
    ("LoadAccZeroPageX" :> [addressing_sequence |-> Some(zero_page_x_addressing),
        operation_sequence |-> MicroInstructionSequence(<<"LoadAccumulator">>)]) @@
    ("LoadAccAbsolute" :> [addressing_sequence |-> Some(absolute_addressing),
        operation_sequence |-> MicroInstructionSequence(<<"LoadAccumulator">>)]) @@
    ("LoadAccAbsoluteX" :> [addressing_sequence |-> Some(absolute_x_addressing),
        operation_sequence |-> MicroInstructionSequence(<<"LoadAccumulator">>)]) @@
    ("LoadAccAbsoluteY" :> [addressing_sequence |-> Some(absolute_y_addressing),
        operation_sequence |-> MicroInstructionSequence(<<"LoadAccumulator">>)]) @@
    ("LoadAccIndirectX" :> [addressing_sequence |-> Some(indirect_x_addressing),
        operation_sequence |-> MicroInstructionSequence(<<"LoadAccumulator">>)]) @@
    ("LoadAccIndirectY" :> [addressing_sequence |-> Some(indirect_y_addressing),
        operation_sequence |-> MicroInstructionSequence(<<"LoadAccumulator">>)]) @@
    ("LoadXImm" :> [addressing_sequence |-> Some(immediate_addressing),
        operation_sequence |-> MicroInstructionSequence(<<"LoadX">>)]) @@
    ("LoadXZeroPage" :> [addressing_sequence |-> Some(zero_page_addressing),
        operation_sequence |-> MicroInstructionSequence(<<"LoadX">>)]) @@
    ("LoadXZeroPageY" :> [addressing_sequence |-> Some(zero_page_y_addressing),
        operation_sequence |-> MicroInstructionSequence(<<"LoadX">>)]) @@
    ("LoadXAbsolute" :> [addressing_sequence |-> Some(absolute_addressing),
        operation_sequence |-> MicroInstructionSequence(<<"LoadX">>)]) @@
    ("LoadXAbsoluteY" :> [addressing_sequence |-> Some(absolute_y_addressing),
        operation_sequence |-> MicroInstructionSequence(<<"LoadX">>)]) @@
    ("LoadYImm" :> [addressing_sequence |-> Some(immediate_addressing),
        operation_sequence |-> MicroInstructionSequence(<<"LoadY">>)]) @@
    ("LoadYZeroPage" :> [addressing_sequence |-> Some(zero_page_addressing),
        operation_sequence |-> MicroInstructionSequence(<<"LoadY">>)]) @@
    ("LoadYZeroPageX" :> [addressing_sequence |-> Some(zero_page_x_addressing),
        operation_sequence |-> MicroInstructionSequence(<<"LoadY">>)]) @@
    ("LoadYAbsolute" :> [addressing_sequence |-> Some(absolute_addressing),
        operation_sequence |-> MicroInstructionSequence(<<"LoadY">>)]) @@
    ("LoadYAbsoluteX" :> [addressing_sequence |-> Some(absolute_x_addressing),
        operation_sequence |-> MicroInstructionSequence(<<"LoadY">>)]) @@
    ("StoreAccZeroPage" :> [addressing_sequence |-> Some(zero_page_addressing),
        operation_sequence |-> MicroInstructionSequence(<<"StoreAccumulator", "WriteZeroPage">>)]) @@
    ("StoreAccZeroPageX" :> [addressing_sequence |-> Some(zero_page_x_addressing),
        operation_sequence |-> MicroInstructionSequence(<<"StoreAccumulator", "WriteZeroPageBalX">>)]) @@
    ("StoreAccAbsolute" :> [addressing_sequence |-> Some(absolute_addressing),
        operation_sequence |-> MicroInstructionSequence(<<"StoreAccumulator", "WriteAbsolute">>)]) @@
    ("StoreAccAbsoluteX" :> [addressing_sequence |-> Some(absolute_x_addressing),
        operation_sequence |-> MicroInstructionSequence(<<"StoreAccumulator", "WriteAbsolute">>)]) @@
    ("StoreAccAbsoluteY" :> [addressing_sequence |-> Some(absolute_y_addressing),
        operation_sequence |-> MicroInstructionSequence(<<"StoreAccumulator", "WriteAbsolute">>)]) @@
    ("StoreAccIndirectX" :> [addressing_sequence |-> Some(indirect_x_addressing),
        operation_sequence |-> MicroInstructionSequence(<<"StoreAccumulator", "WriteAbsolute">>)]) @@
    ("StoreAccIndirectY" :> [addressing_sequence |-> Some(indirect_y_addressing),
        operation_sequence |-> MicroInstructionSequence(<<"StoreAccumulator", "WriteAbsolute">>)]) @@
    ("StoreXZeroPage" :> [addressing_sequence |-> Some(zero_page_addressing),
        operation_sequence |-> MicroInstructionSequence(<<"StoreX", "WriteZeroPage">>)]) @@
    ("StoreXZeroPageY" :> [addressing_sequence |-> Some(zero_page_y_addressing),
        operation_sequence |-> MicroInstructionSequence(<<"StoreX", "WriteZeroPageBalY">>)]) @@
    ("StoreXAbsolute" :> [addressing_sequence |-> Some(absolute_addressing),
        operation_sequence |-> MicroInstructionSequence(<<"StoreX", "WriteAbsolute">>)]) @@
    ("StoreYZeroPage" :> [addressing_sequence |-> Some(zero_page_addressing),
        operation_sequence |-> MicroInstructionSequence(<<"StoreY", "WriteZeroPage">>)]) @@
    ("StoreYZeroPageX" :> [addressing_sequence |-> Some(zero_page_x_addressing),
        operation_sequence |-> MicroInstructionSequence(<<"StoreY", "WriteZeroPageBalX">>)]) @@
    ("StoreYAbsolute" :> [addressing_sequence |-> Some(absolute_addressing),
        operation_sequence |-> MicroInstructionSequence(<<"StoreY", "WriteAbsolute">>)]) @@
    ("TransferAccToX" :> [addressing_sequence |-> None,
        operation_sequence |-> MicroInstructionSequence(<<"TransferAccumulatorToX">>)]) @@
    ("TransferAccToY" :> [addressing_sequence |-> None,
        operation_sequence |-> MicroInstructionSequence(<<"TransferAccumulatorToY">>)]) @@
    ("TransferStackptrToX" :> [addressing_sequence |-> None,
        operation_sequence |-> MicroInstructionSequence(<<"TransferStackptrToX">>)]) @@
    ("TransferXToAcc" :> [addressing_sequence |-> None,
        operation_sequence |-> MicroInstructionSequence(<<"TransferXToAccumulator">>)]) @@
    ("TransferXToStackptr" :> [addressing_sequence |-> None,
        operation_sequence |-> MicroInstructionSequence(<<"TransferXToStackptr">>)]) @@
    ("TransferYToAcc" :> [addressing_sequence |-> None,
        operation_sequence |-> MicroInstructionSequence(<<"TransferYToAccumulator">>)]) @@
    ("XorImm" :> [addressing_sequence |-> Some(immediate_addressing),
        operation_sequence |-> MicroInstructionSequence(<<"Xor">>)]) @@
    ("XorZeroPage" :> [addressing_sequence |-> Some(zero_page_addressing),
        operation_sequence |-> MicroInstructionSequence(<<"Xor">>)]) @@
    ("XorZeroPageX" :> [addressing_sequence |-> Some(zero_page_x_addressing),
        operation_sequence |-> MicroInstructionSequence(<<"Xor">>)]) @@
    ("XorAbsolute" :> [addressing_sequence |-> Some(absolute_addressing),
        operation_sequence |-> MicroInstructionSequence(<<"Xor">>)]) @@
    ("XorAbsoluteX" :> [addressing_sequence |-> Some(absolute_x_addressing),
        operation_sequence |-> MicroInstructionSequence(<<"Xor">>)]) @@
    ("XorAbsoluteY" :> [addressing_sequence |-> Some(absolute_y_addressing),
        operation_sequence |-> MicroInstructionSequence(<<"Xor">>)]) @@
    ("XorIndirectX" :> [addressing_sequence |-> Some(indirect_x_addressing),
        operation_sequence |-> MicroInstructionSequence(<<"Xor">>)]) @@
    ("XorIndirectY" :> [addressing_sequence |-> Some(indirect_y_addressing),
        operation_sequence |-> MicroInstructionSequence(<<"Xor">>)]) @@
    ("AndImm" :> [addressing_sequence |-> Some(immediate_addressing),
        operation_sequence |-> MicroInstructionSequence(<<"And">>)]) @@
    ("AndZeroPage" :> [addressing_sequence |-> Some(zero_page_addressing),
        operation_sequence |-> MicroInstructionSequence(<<"And">>)]) @@
    ("AndZeroPageX" :> [addressing_sequence |-> Some(zero_page_x_addressing),
        operation_sequence |-> MicroInstructionSequence(<<"And">>)]) @@
    ("AndAbsolute" :> [addressing_sequence |-> Some(absolute_addressing),
        operation_sequence |-> MicroInstructionSequence(<<"And">>)]) @@
    ("AndAbsoluteX" :> [addressing_sequence |-> Some(absolute_x_addressing),
        operation_sequence |-> MicroInstructionSequence(<<"And">>)]) @@
    ("AndAbsoluteY" :> [addressing_sequence |-> Some(absolute_y_addressing),
        operation_sequence |-> MicroInstructionSequence(<<"And">>)]) @@
    ("AndIndirectX" :> [addressing_sequence |-> Some(indirect_x_addressing),
        operation_sequence |-> MicroInstructionSequence(<<"And">>)]) @@
    ("AndIndirectY" :> [addressing_sequence |-> Some(indirect_y_addressing),
        operation_sequence |-> MicroInstructionSequence(<<"And">>)])

(***************************************************************************)
(* cpu/operations.rs: Operation::get_operation, one entry per match arm;   *)
(* every other byte is the `_ => None` arm.                                 *)
(***************************************************************************)
OpcodeTable ==
    (\h0A :> "AslA") @@
    (\h06 :> "AslZeroPage") @@
    (\h16 :> "AslZeroPageX") @@
    (\h0E :> "AslAbsolute") @@
    (\hE6 :> "IncMemZeroPage") @@
    (\hF6 :> "IncMemZeroPageX") @@
    (\hEE :> "IncMemAbsolute") @@
    (\hFE :> "IncMemAbsoluteX") @@
    (\hE8 :> "IncX") @@
    (\hC8 :> "IncY") @@
    (\hC6 :> "DecMemZeroPage") @@
    (\hD6 :> "DecMemZeroPageX") @@
    (\hCE :> "DecMemAbsolute") @@
    (\hDE :> "DecMemAbsoluteX") @@
    (\hCA :> "DecX") @@
    (\h88 :> "DecY") @@
    (\hA9 :> "LoadAccImm") @@
    (\hA5 :> "LoadAccZeroPage") @@
    (\hB5 :> "LoadAccZeroPageX") @@
    (\hAD :> "LoadAccAbsolute") @@
    (\hBD :> "LoadAccAbsoluteX") @@
    (\hB9 :> "LoadAccAbsoluteY") @@
    (\hA1 :> "LoadAccIndirectX") @@
    (\hB1 :> "LoadAccIndirectY") @@
    (\hA2 :> "LoadXImm") @@
    (\hA6 :> "LoadXZeroPage") @@
    (\hB6 :> "LoadXZeroPageY") @@
    (\hAE :> "LoadXAbsolute") @@
    (\hBE :> "LoadXAbsoluteY") @@
    (\hA0 :> "LoadYImm") @@
    (\hA4 :> "LoadYZeroPage") @@
    (\hB4 :> "LoadYZeroPageX") @@
    (\hAC :> "LoadYAbsolute") @@
    (\hBC :> "LoadYAbsoluteX") @@
    (\h85 :> "StoreAccZeroPage") @@
    (\h95 :> "StoreAccZeroPageX") @@
    (\h8D :> "StoreAccAbsolute") @@
    (\h9D :> "StoreAccAbsoluteX") @@
    (\h99 :> "StoreAccAbsoluteY") @@
    (\h81 :> "StoreAccIndirectX") @@
    (\h91 :> "StoreAccIndirectY") @@
    (\h86 :> "StoreXZeroPage") @@
    (\h96 :> "StoreXZeroPageY") @@
    (\h8E :> "StoreXAbsolute") @@
    (\h84 :> "StoreYZeroPage") @@
    (\h94 :> "StoreYZeroPageX") @@
    (\h8C :> "StoreYAbsolute") @@
    (\hAA :> "TransferAccToX") @@
    (\hA8 :> "TransferAccToY") @@
    (\hBA :> "TransferStackptrToX") @@
    (\h8A :> "TransferXToAcc") @@
    (\h9A :> "TransferXToStackptr") @@
    (\h98 :> "TransferYToAcc") @@
    (\h49 :> "XorImm") @@
    (\h45 :> "XorZeroPage") @@
    (\h55 :> "XorZeroPageX") @@
    (\h4D :> "XorAbsolute") @@
    (\h5D :> "XorAbsoluteX") @@
    (\h59 :> "XorAbsoluteY") @@
    (\h41 :> "XorIndirectX") @@
    (\h51 :> "XorIndirectY") @@
    (\h29 :> "AndImm") @@
    (\h25 :> "AndZeroPage") @@
    (\h35 :> "AndZeroPageX") @@
    (\h2D :> "AndAbsolute") @@
    (\h3D :> "AndAbsoluteX") @@
    (\h39 :> "AndAbsoluteY") @@
    (\h21 :> "AndIndirectX") @@
    (\h31 :> "AndIndirectY")

(***************************************************************************)
(* Operations the tests of cpu/cpu.rs decode and run (ORA, the flag         *)
(* instructions, PHA/PHP/PLA/PLP) but whose table entries are not in        *)
(* cpu/operations.rs as given: their entries follow the specification's     *)
(* opcode table and the tests' microinstruction order.                      *)
(***************************************************************************)
ExtMicroInstructionsTable ==
    ("OrImm" :> [addressing_sequence |-> Some(immediate_addressing),
        operation_sequence |-> MicroInstructionSequence(<<"Or">>)]) @@
    ("OrZeroPage" :> [addressing_sequence |-> Some(zero_page_addressing),
        operation_sequence |-> MicroInstructionSequence(<<"Or">>)]) @@
    ("OrZeroPageX" :> [addressing_sequence |-> Some(zero_page_x_addressing),
        operation_sequence |-> MicroInstructionSequence(<<"Or">>)]) @@
    ("OrAbsolute" :> [addressing_sequence |-> Some(absolute_addressing),
        operation_sequence |-> MicroInstructionSequence(<<"Or">>)]) @@
    ("OrAbsoluteX" :> [addressing_sequence |-> Some(absolute_x_addressing),
        operation_sequence |-> MicroInstructionSequence(<<"Or">>)]) @@
    ("OrAbsoluteY" :> [addressing_sequence |-> Some(absolute_y_addressing),
        operation_sequence |-> MicroInstructionSequence(<<"Or">>)]) @@
    ("OrIndirectX" :> [addressing_sequence |-> Some(indirect_x_addressing),
        operation_sequence |-> MicroInstructionSequence(<<"Or">>)]) @@
    ("OrIndirectY" :> [addressing_sequence |-> Some(indirect_y_addressing),
        operation_sequence |-> MicroInstructionSequence(<<"Or">>)]) @@
    ("ClearCarryFlag" :> [addressing_sequence |-> None,
        operation_sequence |-> MicroInstructionSequence(<<"ClearCarryFlag">>)]) @@
    ("ClearDecimalFlag" :> [addressing_sequence |-> None,
        operation_sequence |-> MicroInstructionSequence(<<"ClearDecimalFlag">>)]) @@
    ("ClearInterruptDisableFlag" :> [addressing_sequence |-> None,
        operation_sequence |-> MicroInstructionSequence(<<"ClearInterruptDisableFlag">>)]) @@
    ("ClearOverflowFlag" :> [addressing_sequence |-> None,
        operation_sequence |-> MicroInstructionSequence(<<"ClearOverflowFlag">>)]) @@
    ("SetCarryFlag" :> [addressing_sequence |-> None,
        operation_sequence |-> MicroInstructionSequence(<<"SetCarryFlag">>)]) @@
    ("SetDecimalFlag" :> [addressing_sequence |-> None,
        operation_sequence |-> MicroInstructionSequence(<<"SetDecimalFlag">>)]) @@
    ("SetInterruptDisableFlag" :> [addressing_sequence |-> None,
        operation_sequence |-> MicroInstructionSequence(<<"SetInterruptDisableFlag">>)]) @@
    ("PushAcc" :> [addressing_sequence |-> None,
        operation_sequence |-> MicroInstructionSequence(<<"PushAccumulator">>)]) @@
    ("PushStatus" :> [addressing_sequence |-> None,
        operation_sequence |-> MicroInstructionSequence(<<"PushStatusRegister">>)]) @@
    ("PullAcc" :> [addressing_sequence |-> None,
        operation_sequence |-> MicroInstructionSequence(<<"PullAccumulator">>)]) @@
    ("PullStatus" :> [addressing_sequence |-> None,
        operation_sequence |-> MicroInstructionSequence(<<"PullStatusRegister">>)])

ExtOpcodeTable ==
    (\h09 :> "OrImm") @@ (\h05 :> "OrZeroPage") @@ (\h15 :> "OrZeroPageX") @@
    (\h0D :> "OrAbsolute") @@ (\h1D :> "OrAbsoluteX") @@ (\h19 :> "OrAbsoluteY") @@
    (\h01 :> "OrIndirectX") @@ (\h11 :> "OrIndirectY") @@
    (\h18 :> "ClearCarryFlag") @@ (\hD8 :> "ClearDecimalFlag") @@
    (\h58 :> "ClearInterruptDisableFlag") @@ (\hB8 :> "ClearOverflowFlag") @@
    (\h38 :> "SetCarryFlag") @@ (\hF8 :> "SetDecimalFlag") @@
    (\h78 :> "SetInterruptDisableFlag") @@
    (\h48 :> "PushAcc") @@ (\h08 :> "PushStatus") @@
    (\h68 :> "PullAcc") @@ (\h28 :> "PullStatus")

\* Operation::get_operation(opcode) -> Option<Operation>
get_operation(opcode) ==
    IF opcode \in DOMAIN OpcodeTable THEN Some(OpcodeTable[opcode])
    ELSE IF opcode \in DOMAIN ExtOpcodeTable THEN Some(ExtOpcodeTable[opcode])
    ELSE None

\* Operation::get_micro_instructions(&self) -> OperationMicroInstructions
get_micro_instructions(operation) ==
    IF operation \in DOMAIN MicroInstructionsTable THEN MicroInstructionsTable[operation]
    ELSE ExtMicroInstructionsTable[operation]

SupportedOpcodes == DOMAIN OpcodeTable \cup DOMAIN ExtOpcodeTable

(***************************************************************************)
(* The bus the CPU is built over in cpu/cpu.rs: TestBus, a flat byte memory *)
(* the host fills before stepping.  bus maps the cells observed so far to   *)
(* their contents; a cell not yet observed holds some byte of `fresh`,      *)
(* fixed by the first read.  A read yields <<value, bus after the read>>.   *)
(***************************************************************************)
bus_read(b, address, fresh) ==
    IF address \in DOMAIN b
    THEN {<<b[address], b>>}
    ELSE {<<v, b @@ (address :> v)>> : v \in fresh}

\* TestBus::write that stores nothing but a zero
bus_write_drops_data(b, address, data) ==
    [a \in DOMAIN b \cup {address} |-> IF a = address THEN 0 ELSE b[a]]

bus_write(b, address, data) ==
    [a \in DOMAIN b \cup {address} |-> IF a = address THEN data ELSE b[a]]

ReadAccess(address) == [kind |-> "read", address |-> address]
WriteAccess(address) == [kind |-> "write", address |-> address]

\* What one microinstruction did: the registers and bus it leaves, the bus
\* accesses it made, and whether it ended in a panic.
Outcome(r, b, log, panic) ==
    [registers |-> r, bus |-> b, bus_log |-> log, panicked |-> panic]

(***************************************************************************)
(* cpu/registers.rs: Registers                                              *)
(***************************************************************************)
Registers_new ==
    [x |-> \h00, y |-> \h00, a |-> \h00, program_counter |-> \h0000,
     stack_ptr |-> \h00, status |-> \h00, operation |-> \h00,
     adl |-> \h00, adh |-> \h00, bal |-> \h00, bah |-> \h00, ial |-> \h00,
     decoded_addressing_mode |-> None, decoded_operation |-> None,
     memory_buffer |-> \h00]

\* get_operation: which of the two decoded sequences is the active one
\* Registers::get_operation that hands out the operation sequence at once
get_operation_field_operation_first(r) == "decoded_operation"

get_operation_field(r) ==
    IF IsSome(r.decoded_addressing_mode)
    THEN IF is_completed(Unwrap(r.decoded_addressing_mode))
         THEN "decoded_operation"
         ELSE "decoded_addressing_mode"
    ELSE "decoded_operation"

is_operation_completed(r) ==
    IF IsSome(r.decoded_operation) THEN is_completed(Unwrap(r.decoded_operation))
    ELSE FALSE

is_flag_set(r, flag) == (r.status \div flag) % 2 = 1
set_flag(r, flag) ==
    [r EXCEPT !.status = IF is_flag_set(r, flag) THEN @ ELSE @ + flag]
\* clear_flag that masks with the flag instead of its complement
clear_flag_keeps_only_flag(r, flag) == [r EXCEPT !.status = BitAnd(@, flag, 0)]
clear_flag(r, flag) ==
    [r EXCEPT !.status = IF is_flag_set(r, flag) THEN @ - flag ELSE @]
set_flag_value(r, flag, value) ==
    IF value THEN set_flag(r, flag) ELSE clear_flag(r, flag)

\* self.program_counter += 1 on a u16
step_program_counter_overflows(r) == r.program_counter = 65535
step_program_counter(r) ==
    [r EXCEPT !.program_counter = (@ + 1) % 65536]

\* The outcome of a function that ends with step_program_counter().
StepPcOutcome(r, b, log) ==
    IF step_program_counter_overflows(r) /\ overflow_checks
    THEN Outcome(r, b, log, TRUE)
    ELSE Outcome(step_program_counter(r), b, log, FALSE)

\* read_operation_code that steps PC as the operand fetches do
read_operation_code_steps_pc(r, b) ==
    { StepPcOutcome([r EXCEPT !.operation = rd[1]], rd[2],
                    <<ReadAccess(r.program_counter)>>) :
        rd \in bus_read(b, r.program_counter, SupportedOpcodes \cup UnknownOpcodes) }

read_operation_code(r, b) ==
    { Outcome([r EXCEPT !.operation = rd[1]], rd[2],
              <<ReadAccess(r.program_counter)>>, FALSE) :
        rd \in bus_read(b, r.program_counter, SupportedOpcodes \cup UnknownOpcodes) }

\* decode_operation that takes an unknown opcode for a one-cycle no-op
decode_operation_unknown_is_nop(r, b) ==
    LET operation == get_operation(r.operation) IN
    IF IsSome(operation)
    THEN LET micro_instructions == get_micro_instructions(Unwrap(operation)) IN
         { StepPcOutcome(
             [r EXCEPT !.decoded_addressing_mode = micro_instructions.addressing_sequence,
                       !.decoded_operation = Some(micro_instructions.operation_sequence)],
             b, <<>>) }
    ELSE { StepPcOutcome(
             [r EXCEPT !.decoded_addressing_mode = None,
                       !.decoded_operation = Some(MicroInstructionSequence(<<"Empty">>))],
             b, <<>>) }

decode_operation(r, b) ==
    LET operation == get_operation(r.operation) IN
    IF IsSome(operation)
    THEN LET micro_instructions == get_micro_instructions(Unwrap(operation)) IN
         { StepPcOutcome(
             [r EXCEPT !.decoded_addressing_mode = micro_instructions.addressing_sequence,
                       !.decoded_operation = Some(micro_instructions.operation_sequence)],
             b, <<>>) }
    ELSE { Outcome(r, b, <<>>, TRUE) }

\* The functions of the shape `self.<latch> = bus.read(self.program_counter);
\* self.step_program_counter()`.
ReadAtPc(r, b, latch) ==
    { StepPcOutcome([r EXCEPT ![latch] = rd[1]], rd[2],
                    <<ReadAccess(r.program_counter)>>) :
        rd \in bus_read(b, r.program_counter, ByteSamples) }

\* The functions of the shape `self.<latch> = bus.read(address)`.
ReadAt(r, b, latch, address) ==
    { Outcome([r EXCEPT ![latch] = rd[1]], rd[2], <<ReadAccess(address)>>, FALSE) :
        rd \in bus_read(b, address, ByteSamples) }

WriteAt(r, b, address) ==
    { Outcome(r, bus_write(b, address, r.memory_buffer), <<WriteAccess(address)>>, FALSE) }

immediate_read(r, b) == ReadAtPc(r, b, "memory_buffer")
read_adl(r, b) == ReadAtPc(r, b, "adl")
read_adh(r, b) == ReadAtPc(r, b, "adh")
\* read_zero_page that keeps the stale memory buffer and skips the bus
read_zero_page_skips_bus(r, b) == { Outcome(r, b, <<>>, FALSE) }
read_zero_page(r, b) == ReadAt(r, b, "memory_buffer", r.adl)
read_absolute(r, b) == ReadAt(r, b, "memory_buffer", r.adh * 256 + r.adl)
read_bal(r, b) == ReadAtPc(r, b, "bal")
read_bah(r, b) == ReadAtPc(r, b, "bah")

\* (self.bal + self.x) as usize: the sum is made in u8
read_adl_indirect_bal(r, b) ==
    IF AddU8Overflows(r.bal, r.x) /\ overflow_checks
    THEN { Outcome(r, b, <<>>, TRUE) }
    ELSE ReadAt(r, b, "adl", WrapU8(r.bal + r.x))

\* (self.bal + self.x + 1) as usize: both sums are made in u8
read_adh_indirect_bal(r, b) ==
    IF (AddU8Overflows(r.bal, r.x) \/ AddU8Overflows(WrapU8(r.bal + r.x), 1))
       /\ overflow_checks
    THEN { Outcome(r, b, <<>>, TRUE) }
    ELSE ReadAt(r, b, "adh", WrapU8(r.bal + r.x + 1))

write_zero_page(r, b) == WriteAt(r, b, r.adl)
write_absolute(r, b) == WriteAt(r, b, r.adh * 256 + r.adl)

read_zero_page_bal_x(r, b) ==
    IF AddU8Overflows(r.bal, r.x) /\ overflow_checks
    THEN { Outcome(r, b, <<>>, TRUE) }
    ELSE ReadAt(r, b, "memory_buffer", WrapU8(r.bal + r.x))

read_zero_page_bal_y(r, b) ==
    IF AddU8Overflows(r.bal, r.y) /\ overflow_checks
    THEN { Outcome(r, b, <<>>, TRUE) }
    ELSE ReadAt(r, b, "memory_buffer", WrapU8(r.bal + r.y))

write_zero_page_bal_x(r, b) ==
    IF AddU8Overflows(r.bal, r.x) /\ overflow_checks
    THEN { Outcome(r, b, <<>>, TRUE) }
    ELSE WriteAt(r, b, WrapU8(r.bal + r.x))

\* read_adl_adh_absolute_index_register that latches the base address and
\* leaves the index out of ADH:ADL
read_adl_adh_absolute_index_register_latches_base(r, b, index_register) ==
    LET address == (r.bah * 256 + r.bal) + index_register
        latched == [r EXCEPT !.adh = r.bah, !.adl = r.bal]
    IN  ReadAt(latched, b, "memory_buffer", address % 65536)

\* The sum is made in usize and cannot overflow; `address as u16` truncates.
read_adl_adh_absolute_index_register(r, b, index_register) ==
    LET address == (r.bah * 256 + r.bal) + index_register
        latched == [r EXCEPT !.adh = (address \div 256) % 256, !.adl = address % 256]
    IN  ReadAt(latched, b, "memory_buffer", address % 65536)

read_adl_adh_absolute_x(r, b) == read_adl_adh_absolute_index_register(r, b, r.x)
read_adl_adh_absolute_y(r, b) == read_adl_adh_absolute_index_register(r, b, r.y)

read_ial(r, b) == ReadAtPc(r, b, "ial")
read_bal_indirect_ial(r, b) == ReadAt(r, b, "bal", r.ial)

\* read_bah_indirect_ial that fetches both bytes of the base address at once
read_bah_indirect_ial_both_bytes(r, b) ==
    { Outcome([r EXCEPT !.bal = lo[1], !.bah = hi[1]], hi[2],
              <<ReadAccess(r.ial), ReadAccess(r.ial + 1)>>, FALSE) :
        lo \in bus_read(b, r.ial, ByteSamples),
        hi \in UNION { bus_read(l[2], r.ial + 1, ByteSamples) :
                          l \in bus_read(b, r.ial, ByteSamples) } }

\* self.ial as u16 + 1: the sum is made in u16 and reaches $0100 for ial = $FF
read_bah_indirect_ial(r, b) == ReadAt(r, b, "bah", r.ial + 1)

(***************************************************************************)
(* cpu/registers.rs: the microinstructions that touch registers only        *)
(***************************************************************************)
\* shift_left_accumulator that takes the carry from bit 7 of the shifted value
shift_left_accumulator_carry_after_shift(r) ==
    LET r1 == [r EXCEPT !.a = (@ * 2) % 256]
        is_carry == BitAt(r1.a, 7) = 1
        r2 == set_flag_value(r1, CPUFlag.CarryBit, is_carry)
        r3 == set_flag_value(r2, CPUFlag.Zero, r1.a = 0)
    IN  set_flag_value(r3, CPUFlag.Negative, is_carry)

shift_left_accumulator(r) ==
    LET is_carry == BitAt(r.a, 7) = 1
        r1 == [r EXCEPT !.a = (@ * 2) % 256]
        is_negative == BitAt(r1.a, 7) = 1
        r2 == set_flag_value(r1, CPUFlag.CarryBit, is_carry)
        r3 == set_flag_value(r2, CPUFlag.Zero, r1.a = 0)
    IN  set_flag_value(r3, CPUFlag.Negative, is_negative)

shift_left_memory_buffer(r) ==
    LET is_carry == BitAt(r.memory_buffer, 7) = 1
        r1 == [r EXCEPT !.memory_buffer = (@ * 2) % 256]
        is_negative == BitAt(r1.memory_buffer, 7) = 1
        r2 == set_flag_value(r1, CPUFlag.CarryBit, is_carry)
        r3 == set_flag_value(r2, CPUFlag.Zero, r1.memory_buffer = 0)
    IN  set_flag_value(r3, CPUFlag.Negative, is_negative)

\* The common tail `set_flag_value(Zero, is_zero); set_flag_value(Negative,
\* is_negative)`.
SetZeroNegative(r, is_zero, is_negative) ==
    set_flag_value(set_flag_value(r, CPUFlag.Zero, is_zero), CPUFlag.Negative, is_negative)

increment_memory_buffer(r) ==
    LET r1 == [r EXCEPT !.memory_buffer = (@ + 1) % 256]
    IN  SetZeroNegative(r1, r1.memory_buffer = 0, BitAt(r1.memory_buffer, 7) = 1)

increment_x(r) ==
    LET r1 == [r EXCEPT !.x = (@ + 1) % 256]
    IN  SetZeroNegative(r1, r1.x = 0, BitAt(r1.x, 7) = 1)

\* is_negative is taken from self.x here, as the source has it
increment_y(r) ==
    LET r1 == [r EXCEPT !.y = (@ + 1) % 256]
    IN  SetZeroNegative(r1, r1.y = 0, BitAt(r1.x, 7) = 1)

dec_memory_buffer(r) ==
    LET r1 == [r EXCEPT !.memory_buffer = (@ + 255) % 256]
    IN  SetZeroNegative(r1, r1.memory_buffer = 0, BitAt(r1.memory_buffer, 7) = 1)

dec_x(r) ==
    LET r1 == [r EXCEPT !.x = (@ + 255) % 256]
    IN  SetZeroNegative(r1, r1.x = 0, BitAt(r1.x, 7) = 1)

dec_y(r) ==
    LET r1 == [r EXCEPT !.y = (@ + 255) % 256]
    IN  SetZeroNegative(r1, r1.y = 0, BitAt(r1.y, 7) = 1)

load_accumulator(r) ==
    LET r1 == [r EXCEPT !.a = r.memory_buffer]
    IN  SetZeroNegative(r1, r1.a = 0, BitAt(r1.a, 7) = 1)

load_x(r) ==
    LET r1 == [r EXCEPT !.x = r.memory_buffer]
    IN  SetZeroNegative(r1, r1.x = 0, BitAt(r1.x, 7) = 1)

\* load_y that takes the Negative flag from X
load_y_negative_from_x(r) ==
    LET r1 == [r EXCEPT !.y = r.memory_buffer]
    IN  SetZeroNegative(r1, r1.y = 0, BitAt(r1.x, 7) = 1)

load_y(r) ==
    LET r1 == [r EXCEPT !.y = r.memory_buffer]
    IN  SetZeroNegative(r1, r1.y = 0, BitAt(r1.y, 7) = 1)

and(r) ==
    LET r1 == [r EXCEPT !.a = BitAnd(r.a, r.memory_buffer, 0)]
    IN  SetZeroNegative(r1, r1.a = 0, BitAt(r1.a, 7) = 1)

(***************************************************************************)
(* Functions CPU::execute_micro_instruction calls on Registers that         *)
(* cpu/registers.rs as given does not define.  Their bodies follow the      *)
(* specification's microinstruction list.                                   *)
(***************************************************************************)
\* bus[(BAL + Y) & $FF] <- MB
write_zero_page_bal_y(r, b) == WriteAt(r, b, WrapU8(r.bal + r.y))

\* MB <- A / X / Y
store_accumulator(r) == [r EXCEPT !.memory_buffer = r.a]
store_x(r) == [r EXCEPT !.memory_buffer = r.x]
store_y(r) == [r EXCEPT !.memory_buffer = r.y]

\* register copies; all but TXS update Zero and Negative
transfer_acc_to_x(r) ==
    LET r1 == [r EXCEPT !.x = r.a] IN SetZeroNegative(r1, r1.x = 0, BitAt(r1.x, 7) = 1)
transfer_acc_to_y(r) ==
    LET r1 == [r EXCEPT !.y = r.a] IN SetZeroNegative(r1, r1.y = 0, BitAt(r1.y, 7) = 1)
transer_stackptr_to_x(r) ==
    LET r1 == [r EXCEPT !.x = r.stack_ptr]
    IN  SetZeroNegative(r1, r1.x = 0, BitAt(r1.x, 7) = 1)
transfer_x_to_acc(r) ==
    LET r1 == [r EXCEPT !.a = r.x] IN SetZeroNegative(r1, r1.a = 0, BitAt(r1.a, 7) = 1)
transfer_x_to_stackptr(r) == [r EXCEPT !.stack_ptr = r.x]
transfer_y_to_acc(r) ==
    LET r1 == [r EXCEPT !.a = r.y] IN SetZeroNegative(r1, r1.a = 0, BitAt(r1.a, 7) = 1)

\* A <- A xor MB, A <- A or MB; Zero and Negative from A
xor(r) ==
    LET r1 == [r EXCEPT !.a = BitXor(r.a, r.memory_buffer, 0)]
    IN  SetZeroNegative(r1, r1.a = 0, BitAt(r1.a, 7) = 1)
or(r) ==
    LET r1 == [r EXCEPT !.a = BitOr(r.a, r.memory_buffer, 0)]
    IN  SetZeroNegative(r1, r1.a = 0, BitAt(r1.a, 7) = 1)

\* pushes: bus[$0100 + SP] <- value, then SP--; P is pushed with bits 4, 5 set
push_accumulator(r, b) ==
    { Outcome([r EXCEPT !.stack_ptr = (@ + 255) % 256],
              bus_write(b, \h0100 + r.stack_ptr, r.a),
              <<WriteAccess(\h0100 + r.stack_ptr)>>, FALSE) }
push_status_register(r, b) ==
    LET pushed == BitOr(r.status, CPUFlag.Break + CPUFlag.Unused, 0) IN
    { Outcome([r EXCEPT !.stack_ptr = (@ + 255) % 256],
              bus_write(b, \h0100 + r.stack_ptr, pushed),
              <<WriteAccess(\h0100 + r.stack_ptr)>>, FALSE) }

\* pulls: SP++, then value <- bus[$0100 + SP]; pulling A updates Zero and
\* Negative, pulling P keeps the current bits 4 and 5 of P
pull_accumulator(r, b) ==
    LET sp == (r.stack_ptr + 1) % 256 IN
    { Outcome(LET r1 == [r EXCEPT !.stack_ptr = sp, !.a = rd[1]]
              IN  SetZeroNegative(r1, r1.a = 0, BitAt(r1.a, 7) = 1),
              rd[2], <<ReadAccess(\h0100 + sp)>>, FALSE) :
        rd \in bus_read(b, \h0100 + sp, ByteSamples) }
pull_status_register(r, b) ==
    LET sp == (r.stack_ptr + 1) % 256
        kept == CPUFlag.Break + CPUFlag.Unused
    IN  { Outcome([r EXCEPT !.stack_ptr = sp,
                            !.status = BitOr(BitAnd(rd[1], 255 - kept, 0),
                                             BitAnd(r.status, kept, 0), 0)],
                  rd[2], <<ReadAccess(\h0100 + sp)>>, FALSE) :
            rd \in bus_read(b, \h0100 + sp, ByteSamples) }

(***************************************************************************)
(* cpu/cpu.rs: CPU                                                          *)
(***************************************************************************)
\* a microinstruction that touches registers only
Done(r, b) == { Outcome(r, b, <<>>, FALSE) }

execute_micro_instruction(micro_instruction, r, b) ==
    CASE micro_instruction = "Empty" -> Done(r, b)
      [] micro_instruction = "ReadOperationCode" -> read_operation_code(r, b)
      [] micro_instruction = "DecodeOperation" -> decode_operation(r, b)
      [] micro_instruction = "ImmediateRead" -> immediate_read(r, b)
      [] micro_instruction = "ReadAdh" -> read_adh(r, b)
      [] micro_instruction = "ReadAdl" -> read_adl(r, b)
      [] micro_instruction = "ReadZeroPage" -> read_zero_page(r, b)
      [] micro_instruction = "ReadAbsolute" -> read_absolute(r, b)
      [] micro_instruction = "ReadBal" -> read_bal(r, b)
      [] micro_instruction = "ReadBah" -> read_bah(r, b)
      [] micro_instruction = "ReadAdlIndirectBal" -> read_adl_indirect_bal(r, b)
      [] micro_instruction = "ReadAdhIndirectBal" -> read_adh_indirect_bal(r, b)
      [] micro_instruction = "ReadZeroPageBalX" -> read_zero_page_bal_x(r, b)
      [] micro_instruction = "ReadZeroPageBalY" -> read_zero_page_bal_y(r, b)
      [] micro_instruction = "ReadAdlAdhAbsoluteX" -> read_adl_adh_absolute_x(r, b)
      [] micro_instruction = "ReadAdlAdhAbsoluteY" -> read_adl_adh_absolute_y(r, b)
      [] micro_instruction = "ReadIal" -> read_ial(r, b)
      [] micro_instruction = "ReadBalIndirectIal" -> read_bal_indirect_ial(r, b)
      [] micro_instruction = "ReadBahIndirectIal" -> read_bah_indirect_ial(r, b)
      [] micro_instruction = "WriteZeroPage" -> write_zero_page(r, b)
      [] micro_instruction = "WriteZeroPageBalX" -> write_zero_page_bal_x(r, b)
      [] micro_instruction = "WriteZeroPageBalY" -> write_zero_page_bal_y(r, b)
      [] micro_instruction = "WriteAbsolute" -> write_absolute(r, b)
      [] micro_instruction = "ClearCarryFlag" -> Done(clear_flag(r, CPUFlag.CarryBit), b)
      [] micro_instruction = "ClearDecimalFlag" -> Done(clear_flag(r, CPUFlag.DecimalMode), b)
      [] micro_instruction = "ClearInterruptDisableFlag" ->
            Done(clear_flag(r, CPUFlag.InterruptDisable), b)
      [] micro_instruction = "ClearOverflowFlag" -> Done(clear_flag(r, CPUFlag.Overflow), b)
      [] micro_instruction = "SetCarryFlag" -> Done(set_flag(r, CPUFlag.CarryBit), b)
      [] micro_instruction = "SetDecimalFlag" -> Done(set_flag(r, CPUFlag.DecimalMode), b)
      [] micro_instruction = "SetInterruptDisableFlag" ->
            Done(set_flag(r, CPUFlag.InterruptDisable), b)
      [] micro_instruction = "ShiftLeftAccumulator" -> Done(shift_left_accumulator(r), b)
      [] micro_instruction = "ShiftLeftMemoryBuffer" -> Done(shift_left_memory_buffer(r), b)
      [] micro_instruction = "PushAccumulator" -> push_accumulator(r, b)
      [] micro_instruction = "PushStatusRegister" -> push_status_register(r, b)
      [] micro_instruction = "PullAccumulator" -> pull_accumulator(r, b)
      [] micro_instruction = "PullStatusRegister" -> pull_status_register(r, b)
      [] micro_instruction = "IncrementMemoryBuffer" -> Done(increment_memory_buffer(r), b)
      [] micro_instruction = "IncrementX" -> Done(increment_x(r), b)
      [] micro_instruction = "IncrementY" -> Done(increment_y(r), b)
      [] micro_instruction = "DecrementMemoryBuffer" -> Done(dec_memory_buffer(r), b)
      [] micro_instruction = "DecrementX" -> Done(dec_x(r), b)
      [] micro_instruction = "DecrementY" -> Done(dec_y(r), b)
      [] micro_instruction = "LoadAccumulator" -> Done(load_accumulator(r), b)
      [] micro_instruction = "LoadX" -> Done(load_x(r), b)
      [] micro_instruction = "LoadY" -> Done(load_y(r), b)
      [] micro_instruction = "StoreAccumulator" -> Done(store_accumulator(r), b)
      [] micro_instruction = "StoreX" -> Done(store_x(r), b)
      [] micro_instruction = "StoreY" -> Done(store_y(r), b)
      [] micro_instruction = "TransferAccumulatorToX" -> Done(transfer_acc_to_x(r), b)
      [] micro_instruction = "TransferAccumulatorToY" -> Done(transfer_acc_to_y(r), b)
      [] micro_instruction = "TransferStackptrToX" -> Done(transer_stackptr_to_x(r), b)
      [] micro_instruction = "TransferXToAccumulator" -> Done(transfer_x_to_acc(r), b)
      [] micro_instruction = "TransferXToStackptr" -> Done(transfer_x_to_stackptr(r), b)
      [] micro_instruction = "TransferYToAccumulator" -> Done(transfer_y_to_acc(r), b)
      [] micro_instruction = "And" -> Done(and(r), b)
      [] micro_instruction = "Xor" -> Done(xor(r), b)
      [] micro_instruction = "Or" -> Done(or(r), b)

\* The scheduling half of step(): what fetch_step / execute_step leave in the
\* CPU before the chosen microinstruction runs.
Scheduled(st, fo, cmi, r, panic) ==
    [state |-> st, fetching_operation |-> fo, current_micro_instruction |-> cmi,
     registers |-> r, panicked |-> panic]

\* fetch_step that never leaves the fetch phase
fetch_step_stays_fetching ==
    LET micro_instruction == get_micro_instruction(fetching_operation)
        advanced == next(fetching_operation)
    IN  Scheduled(state, IF is_completed(advanced) THEN reset(advanced) ELSE advanced,
                  Some(micro_instruction), registers, FALSE)

fetch_step ==
    LET micro_instruction == get_micro_instruction(fetching_operation)
        advanced == next(fetching_operation)
    IN  IF is_completed(advanced)
        THEN Scheduled("Execution", reset(advanced), Some(micro_instruction),
                       registers, FALSE)
        ELSE Scheduled(state, advanced, Some(micro_instruction), registers, FALSE)

\* execute_step that never returns to the fetch phase
execute_step_stays_executing ==
    LET field == get_operation_field(registers) IN
    IF IsSome(registers[field]) /\ ~is_completed(Unwrap(registers[field]))
    THEN LET operation == Unwrap(registers[field]) IN
         Scheduled(state, fetching_operation, Some(get_micro_instruction(operation)),
                   [registers EXCEPT ![field] = Some(next(operation))], FALSE)
    ELSE Scheduled(state, fetching_operation, current_micro_instruction,
                   registers, TRUE)

\* sequence[idx] past the end and the `None` arm both panic
execute_step ==
    LET field == get_operation_field(registers) IN
    IF IsSome(registers[field])
    THEN LET operation == Unwrap(registers[field]) IN
         IF operation.idx >= Len(operation.sequence)
         THEN Scheduled(state, fetching_operation, current_micro_instruction,
                        registers, TRUE)
         ELSE LET micro_instruction == get_micro_instruction(operation)
                  r1 == [registers EXCEPT ![field] = Some(next(operation))]
              IN  Scheduled(IF is_operation_completed(r1) THEN "Fetching" ELSE state,
                            fetching_operation, Some(micro_instruction), r1, FALSE)
    ELSE Scheduled(state, fetching_operation, current_micro_instruction,
                   registers, TRUE)

\* CPU::step(): the scheduling half, then the microinstruction it chose.
step ==
    /\ ~panicked
    /\ LET c == IF state = "Fetching" THEN fetch_step ELSE execute_step IN
       /\ state' = c.state
       /\ fetching_operation' = c.fetching_operation
       /\ current_micro_instruction' = c.current_micro_instruction
       /\ steps' = steps + 1
       /\ IF c.panicked
          THEN /\ panicked' = TRUE
               /\ registers' = c.registers
               /\ bus_log' = <<>>
               /\ UNCHANGED <<bus, completed, fetch_pc, fetch_steps>>
          ELSE \E out \in execute_micro_instruction(
                              Unwrap(c.current_micro_instruction), c.registers, bus) :
               /\ registers' = out.registers
               /\ bus' = out.bus
               /\ bus_log' = out.bus_log
               /\ panicked' = out.panicked
               /\ completed' =
                    IF state = "Execution" /\ is_operation_completed(c.registers)
                       /\ ~out.panicked
                    THEN completed + 1 ELSE completed
               /\ fetch_pc' =
                    IF Unwrap(c.current_micro_instruction) = "ReadOperationCode"
                    THEN registers.program_counter ELSE fetch_pc
               /\ fetch_steps' =
                    IF Unwrap(c.current_micro_instruction) = "ReadOperationCode"
                    THEN steps ELSE fetch_steps
    /\ UNCHANGED <<overflow_checks, start_registers>>
    /\ UNCHANGED <<bus_vars, ppu_vars, device_vars, loader_vars>>

\* No PPU is built beside the CPU or the Bus under test.
NoPPU ==
    /\ ppu = <<>>
    /\ ppu_last = [kind |-> "none"]
    /\ ppu_ops = 0
    /\ ppu_addr_writes = 0

\* No Addressable device is driven on its own.
NoDevice ==
    /\ dev = <<>>
    /\ device_last = [kind |-> "none"]
    /\ device_ops = 0

\* No ROM file is loaded.
NoLoader ==
    /\ file = <<>>
    /\ cartridge = <<>>
    /\ chr_rom_access = <<>>

\* The CPU runs over its TestBus: no Bus is built.
NoBus ==
    /\ mappings = <<>>
    /\ devices = <<>>
    /\ registered = <<>>
    /\ last_access = [kind |-> "none"]
    /\ accesses = 0

\* CPU::new(bus) over a TestBus the host has filled, with the public
\* registers set by the host and the build's overflow behaviour chosen.
Init ==
    /\ bus = <<>>
    /\ \E a \in AccSamples, x \in IndexSamples, y \in IndexSamples, p \in StatusSamples :
          registers = [Registers_new EXCEPT !.a = a, !.x = x, !.y = y, !.status = p]
    /\ state = "Fetching"
    /\ fetching_operation =
          MicroInstructionSequence(<<"ReadOperationCode", "DecodeOperation">>)
    /\ current_micro_instruction = None
    /\ overflow_checks \in BOOLEAN
    /\ panicked = FALSE
    /\ bus_log = <<>>
    /\ steps = 0
    /\ completed = 0
    /\ fetch_pc = 0
    /\ fetch_steps = 0
    /\ start_registers = registers
    /\ NoBus
    /\ NoPPU
    /\ NoDevice
    /\ NoLoader

\* a run of MaxInstr instructions
Next == completed < MaxInstr /\ step

Spec == Init /\ [][Next]_vars

\* The program of cpu.rs's stack tests, PHA then PLA, at $0000, with the
\* accumulator and the stack pointer set by the host (the tests assign
\* registers.a and registers.stack_ptr).
StackProgram == <<\h48, \h68>>
StackSamples == {\h00, \hFF}

InitStack ==
    /\ bus = [address \in 0..(Len(StackProgram) - 1) |-> StackProgram[address + 1]]
    /\ \E a \in AccSamples, x \in IndexSamples, y \in IndexSamples,
          p \in StatusSamples, sp \in StackSamples :
          registers = [Registers_new EXCEPT !.a = a, !.x = x, !.y = y,
                                            !.status = p, !.stack_ptr = sp]
    /\ state = "Fetching"
    /\ fetching_operation =
          MicroInstructionSequence(<<"ReadOperationCode", "DecodeOperation">>)
    /\ current_micro_instruction = None
    /\ overflow_checks \in BOOLEAN
    /\ panicked = FALSE
    /\ bus_log = <<>>
    /\ steps = 0
    /\ completed = 0
    /\ fetch_pc = 0
    /\ fetch_steps = 0
    /\ start_registers = registers
    /\ NoBus
    /\ NoPPU
    /\ NoDevice
    /\ NoLoader

NextStack == completed < Len(StackProgram) /\ step

SpecStack == InitStack /\ [][NextStack]_vars

(***************************************************************************)
(* addressing.rs, empty_device.rs, cartridge/registers/prg_ram.rs: the      *)
(* devices of a Bus.  A registered device is a PrgRam built by             *)
(* new_with_data over the whole address space, indexed by the bus address.  *)
(***************************************************************************)
\* AddressRange::new without the start > end check
AddressRange_new_unchecked(start, end) == Some([start |-> start, end |-> end])

\* AddressRange::new panics (None) when start > end
AddressRange_new(start, end) ==
    IF start > end THEN None ELSE Some([start |-> start, end |-> end])

EmptyDevice == [kind |-> "EmptyDevice"]
PrgRam_new_with_data(data) == [kind |-> "PrgRam", ram |-> data]

\* Addressable::read whose Empty device returns an open-bus $FF
Addressable_read_open_bus(device, address) ==
    IF device.kind = "EmptyDevice" THEN <<255, device>>
    ELSE <<device.ram[address], device>>

\* Addressable::read -> <<value, device after the read>>
Addressable_read(device, address) ==
    IF device.kind = "EmptyDevice" THEN <<0, device>>
    ELSE <<device.ram[address], device>>

Addressable_write(device, address, data) ==
    IF device.kind = "EmptyDevice" THEN device
    ELSE [device EXCEPT !.ram[address] = data]

(***************************************************************************)
(* bus.rs: Bus.  Device indices are the source's (0 is the Empty device);   *)
(* devices[i + 1] is the source's devices[i].                               *)
(***************************************************************************)
Addresses == 0..(ADDRESS_SPACE - 1)

Bus_new ==
    /\ mappings = [a \in Addresses |-> 0]
    /\ devices = <<EmptyDevice>>

\* Bus::register that takes the device index before pushing the device
Bus_register_index_before_push(addressable, start, end) ==
    /\ Len(devices) - 1 < MaxDevices
    /\ ~panicked
    /\ LET address_range == AddressRange_new(start, end) IN
       IF IsSome(address_range)
       THEN /\ devices' = Append(devices, addressable)
            /\ mappings' = [a \in Addresses |->
                              IF Unwrap(address_range).start <= a
                                 /\ a <= Unwrap(address_range).end
                              THEN Len(devices) - 1 ELSE mappings[a]]
            /\ registered' = Append(registered, Unwrap(address_range))
            /\ last_access' = [kind |-> "none"]
            /\ UNCHANGED <<panicked, accesses>>
       ELSE /\ panicked' = TRUE
            /\ UNCHANGED <<mappings, devices, registered, last_access, accesses>>
    /\ UNCHANGED <<bus, registers, state, fetching_operation, current_micro_instruction,
                   overflow_checks, bus_log, steps, completed, fetch_pc, fetch_steps,
                   start_registers>>
    /\ UNCHANGED <<ppu_vars, device_vars, loader_vars>>

Bus_register(addressable, start, end) ==
    /\ Len(devices) - 1 < MaxDevices
    /\ ~panicked
    /\ LET address_range == AddressRange_new(start, end) IN
       IF IsSome(address_range)
       THEN /\ devices' = Append(devices, addressable)
            /\ mappings' = [a \in Addresses |->
                              IF Unwrap(address_range).start <= a
                                 /\ a <= Unwrap(address_range).end
                              THEN Len(devices')  - 1 ELSE mappings[a]]
            /\ registered' = Append(registered, Unwrap(address_range))
            /\ last_access' = [kind |-> "none"]
            /\ UNCHANGED <<panicked, accesses>>
       ELSE /\ panicked' = TRUE
            /\ UNCHANGED <<mappings, devices, registered, last_access, accesses>>
    /\ UNCHANGED <<bus, registers, state, fetching_operation, current_micro_instruction,
                   overflow_checks, bus_log, steps, completed, fetch_pc, fetch_steps,
                   start_registers>>
    /\ UNCHANGED <<ppu_vars, device_vars, loader_vars>>

Bus_read(address) ==
    /\ accesses < MaxAccesses
    /\ ~panicked
    /\ LET index == mappings[address]
           rd == Addressable_read(devices[index + 1], address)
       IN  /\ devices' = [devices EXCEPT ![index + 1] = rd[2]]
           /\ last_access' = [kind |-> "read", address |-> address,
                              device |-> index, data |-> rd[1]]
    /\ accesses' = accesses + 1
    /\ UNCHANGED <<mappings, registered>>
    /\ UNCHANGED <<cpu_vars, ppu_vars, device_vars, loader_vars>>

\* Bus::write that stores into every registered device
Bus_write_broadcast(address, data) ==
    /\ accesses < MaxAccesses
    /\ ~panicked
    /\ LET index == mappings[address] IN
       /\ devices' = [i \in 1..Len(devices) |->
                        Addressable_write(devices[i], address, data)]
       /\ last_access' = [kind |-> "write", address |-> address,
                          device |-> index, data |-> data]
    /\ accesses' = accesses + 1
    /\ UNCHANGED <<mappings, registered>>
    /\ UNCHANGED <<cpu_vars, ppu_vars, device_vars, loader_vars>>

Bus_write(address, data) ==
    /\ accesses < MaxAccesses
    /\ ~panicked
    /\ LET index == mappings[address] IN
       /\ devices' = [devices EXCEPT
                        ![index + 1] = Addressable_write(devices[index + 1], address, data)]
       /\ last_access' = [kind |-> "write", address |-> address,
                          device |-> index, data |-> data]
    /\ accesses' = accesses + 1
    /\ UNCHANGED <<mappings, registered>>
    /\ UNCHANGED <<cpu_vars, ppu_vars, device_vars, loader_vars>>

Register ==
    \E start \in Addresses, end \in Addresses :
        LET fill == DeviceFills[((Len(devices) - 1) % Len(DeviceFills)) + 1] IN
        Bus_register(PrgRam_new_with_data([a \in Addresses |-> fill]), start, end)
Read == \E address \in Addresses : Bus_read(address)
Write == \E address \in Addresses, data \in WriteSamples : Bus_write(address, data)

\* Bus::new() beside a CPU that is never stepped.
InitBus ==
    /\ Bus_new
    /\ registered = <<>>
    /\ last_access = [kind |-> "none"]
    /\ accesses = 0
    /\ bus = <<>>
    /\ registers = Registers_new
    /\ state = "Fetching"
    /\ fetching_operation =
          MicroInstructionSequence(<<"ReadOperationCode", "DecodeOperation">>)
    /\ current_micro_instruction = None
    /\ overflow_checks = FALSE
    /\ panicked = FALSE
    /\ bus_log = <<>>
    /\ steps = 0
    /\ completed = 0
    /\ fetch_pc = 0
    /\ fetch_steps = 0
    /\ start_registers = registers
    /\ NoPPU
    /\ NoDevice
    /\ NoLoader

NextBus == Register \/ Read \/ Write

SpecBus == InitBus /\ [][NextBus]_vars

(***************************************************************************)
(* ppu/registers/ppu_addr.rs, ppu/registers/ppu_ctrl.rs                     *)
(***************************************************************************)
PPUAddr_new == [high_addr |-> \h00, low_addr |-> \h00]

PPUAddr_read(addr) == addr.high_addr * 256 + addr.low_addr

\* self.read() & 0x3FFF, split back into the two bytes
PPUAddr_mirror_address(addr) ==
    LET mirrored_data == PPUAddr_read(addr) % 16384 IN
    [high_addr |-> mirrored_data \div 256, low_addr |-> mirrored_data % 256]

PPUAddr_write(addr, data, byte_flag) ==
    LET written == IF byte_flag THEN [addr EXCEPT !.high_addr = data]
                   ELSE [addr EXCEPT !.low_addr = data]
    IN  IF PPUAddr_read(written) > \h3FFF THEN PPUAddr_mirror_address(written)
        ELSE written

\* PPUAddr::increment that lets the address leave the 14-bit space
PPUAddr_increment_unmirrored(addr, increment) ==
    LET low == (addr.low_addr + increment) % 256 IN
    IF addr.low_addr > low
    THEN [high_addr |-> (addr.high_addr + 1) % 256, low_addr |-> low]
    ELSE [high_addr |-> addr.high_addr, low_addr |-> low]

PPUAddr_increment(addr, increment) ==
    LET current_low == addr.low_addr
        low == (addr.low_addr + increment) % 256
        carried == IF current_low > low
                   THEN [high_addr |-> (addr.high_addr + 1) % 256, low_addr |-> low]
                   ELSE [high_addr |-> addr.high_addr, low_addr |-> low]
    IN  IF PPUAddr_read(carried) > \h3FFF THEN PPUAddr_mirror_address(carried)
        ELSE carried

\* get_vram_increment that tests bit 1 of PPUCTRL
get_vram_increment_bit_1(ppu_ctrl) == IF BitAt(ppu_ctrl, 1) = 1 THEN 32 ELSE 1

\* PPUCtrl::INCREMENT_MODE is bit 2
get_vram_increment(ppu_ctrl) == IF BitAt(ppu_ctrl, 2) = 1 THEN 32 ELSE 1

(***************************************************************************)
(* vram/vram.rs, ppu/palette_ram/palette_ram.rs: the devices of the PPU     *)
(* bus.  A nametable is kept as the cells written so far; every other cell  *)
(* holds the 0 the array was built with.  A device operation that panics    *)
(* yields None.                                                             *)
(***************************************************************************)
VRAM_new ==
    [kind |-> "VRAM", nametable_1 |-> <<>>, nametable_2 |-> <<>>,
     mirroring |-> "Horizontal"]

\* nametable_cell that uses the horizontal layout whatever the mirroring
nametable_cell_ignores_mirroring(vram, addr) ==
    LET quadrant == addr \div \h0400
        table == <<"nametable_1", "nametable_1", "nametable_2", "nametable_2">>
    IN  IF addr <= \h0FFF THEN Some(<<table[quadrant + 1], addr % \h0400>>) ELSE None

\* which nametable array and which index an offset into VRAM selects
nametable_cell(vram, addr) ==
    LET quadrant == addr \div \h0400
        table == IF vram.mirroring = "Horizontal"
                 THEN <<"nametable_1", "nametable_1", "nametable_2", "nametable_2">>
                 ELSE <<"nametable_1", "nametable_2", "nametable_1", "nametable_2">>
    IN  IF addr <= \h0FFF THEN Some(<<table[quadrant + 1], addr % \h0400>>) ELSE None

read_from_nametable(vram, addr) ==
    LET cell == nametable_cell(vram, addr) IN
    IF IsSome(cell)
    THEN LET array == vram[Unwrap(cell)[1]]
             index == Unwrap(cell)[2]
         IN  Some(IF index \in DOMAIN array THEN array[index] ELSE 0)
    ELSE None

write_to_nametable(vram, addr, value) ==
    LET cell == nametable_cell(vram, addr) IN
    IF IsSome(cell)
    THEN LET name == Unwrap(cell)[1]
             index == Unwrap(cell)[2]
         IN  Some([vram EXCEPT ![name] =
                      [i \in DOMAIN @ \cup {index} |-> IF i = index THEN value ELSE @[i]]])
    ELSE None

Palette_new(index) ==
    [index |-> index, background_entries |-> <<0, 0, 0, 0>>,
     sprite_entries |-> <<0, 0, 0, 0>>]

PaletteRAM_new ==
    [kind |-> "PaletteRAM",
     palettes |-> <<Palette_new(0), Palette_new(1), Palette_new(2), Palette_new(3)>>]

\* the palette, the entry array and the entry an address in $3F00-$3F1F
\* selects: index = (address & 0x0F) >> 4, index_in_palette = (address & 0x0F) % 4
palette_cell(address) ==
    [index |-> (address % 16) \div 16,
     entries |-> IF address <= \h3F0F THEN "background_entries" ELSE "sprite_entries",
     index_in_palette |-> (address % 16) % 4]

read_from_palette(palette_ram, address) ==
    LET cell == palette_cell(address) IN
    palette_ram.palettes[cell.index + 1][cell.entries][cell.index_in_palette + 1]

write_to_palette(palette_ram, address, data) ==
    LET cell == palette_cell(address) IN
    [palette_ram EXCEPT
        !.palettes[cell.index + 1][cell.entries][cell.index_in_palette + 1] = data]

\* PaletteRAM::mirror_address that keeps only the low nibble
PaletteRAM_mirror_address_low_nibble(address) == \h3F00 + (address % 16)

PaletteRAM_mirror_address(address) == \h3F00 + (address % 32)

\* memory.rs: Vec::with_capacity(size) reserves room and holds no element
Memory_new(size) == [kind |-> "Memory", mem |-> <<>>, capacity |-> size]

\* self.mem[address as usize] -> Some(value), None when the index is out of bounds
Memory_read(memory, address) ==
    IF address < Len(memory.mem) THEN Some(memory.mem[address + 1]) ELSE None

\* self.mem[address as usize] = data -> Some(memory), None when out of bounds
Memory_write(memory, address, data) ==
    IF address < Len(memory.mem)
    THEN Some([memory EXCEPT !.mem[address + 1] = data])
    ELSE None

VRAM_set_mirroring(vram, mirroring) == [vram EXCEPT !.mirroring = mirroring]

\* Addressable::read of the devices a Bus can hold -> Some(value) or None
Device_read(device, address) ==
    CASE device.kind = "VRAM" ->
            IF address >= \h2000 THEN read_from_nametable(device, address - \h2000)
            ELSE None
      [] device.kind = "PaletteRAM" ->
            IF \h3F00 <= address /\ address <= \h3F1F
            THEN Some(read_from_palette(device, address))
            ELSE IF \h3F20 <= address /\ address <= \h3FFF
            THEN Some(read_from_palette(device, PaletteRAM_mirror_address(address)))
            ELSE None
      [] device.kind = "Memory" -> Memory_read(device, address)
      [] OTHER -> Some(Addressable_read(device, address)[1])

\* Addressable::write of the devices a Bus can hold -> Some(device) or None
Device_write(device, address, data) ==
    CASE device.kind = "VRAM" ->
            IF address >= \h2000 THEN write_to_nametable(device, address - \h2000, data)
            ELSE None
      [] device.kind = "PaletteRAM" ->
            IF \h3F00 <= address /\ address <= \h3F1F
            THEN Some(write_to_palette(device, address, data))
            ELSE IF \h3F20 <= address /\ address <= \h3FFF
            THEN Some(write_to_palette(device, PaletteRAM_mirror_address(address), data))
            ELSE None
      [] device.kind = "Memory" -> Memory_write(device, address, data)
      [] OTHER -> Some(Addressable_write(device, address, data))

(***************************************************************************)
(* ppu/registers/ppu_data.rs: PPUData and the Bus it owns.  The Bus's flat  *)
(* mapping table is kept as the registered ranges, in order: an address is  *)
(* mapped to the device of the latest range that covers it, to the Empty    *)
(* device at index 0 when none does.                                        *)
(***************************************************************************)
PpuBus_new == [ranges |-> <<>>, devices |-> <<EmptyDevice>>]

PpuBus_register(ppu_bus, addressable, start, end) ==
    [ranges |-> Append(ppu_bus.ranges, Unwrap(AddressRange_new(start, end))),
     devices |-> Append(ppu_bus.devices, addressable)]

PpuBus_mapping(ppu_bus, address) ==
    LET covering == { i \in 1..Len(ppu_bus.ranges) :
                        ppu_bus.ranges[i].start <= address
                        /\ address <= ppu_bus.ranges[i].end }
    IN  IF covering = {} THEN 0
        ELSE CHOOSE i \in covering : \A j \in covering : j <= i

PPUData_read(ppu_data, address) ==
    Device_read(ppu_data.ppu_bus.devices[PpuBus_mapping(ppu_data.ppu_bus, address) + 1],
                address)

PPUData_write(ppu_data, address, value) ==
    LET index == PpuBus_mapping(ppu_data.ppu_bus, address)
        written == Device_write(ppu_data.ppu_bus.devices[index + 1], address, value)
    IN  IF IsSome(written)
        THEN Some([ppu_data EXCEPT !.ppu_bus.devices[index + 1] = Unwrap(written)])
        ELSE None

(***************************************************************************)
(* ppu/ppu.rs: PPU                                                          *)
(***************************************************************************)
PPU_new(ppu_bus) ==
    [ppu_addr |-> PPUAddr_new, ppu_data |-> [ppu_bus |-> ppu_bus], ppu_ctrl |-> \h00,
     internal_read_buffer |-> \h00, internal_w_register |-> TRUE]

\* What one read() or write() of the PPU did: the PPU it leaves, the byte it
\* returned (0 for a write) and whether it ended in a panic.
PpuOutcome(p, value, panic) == [ppu |-> p, value |-> value, panicked |-> panic]

\* todo!() and panic!() arms
PpuPanic(p) == PpuOutcome(p, 0, TRUE)

increment_addr(p) ==
    [p EXCEPT !.ppu_addr = PPUAddr_increment(@, get_vram_increment(p.ppu_ctrl))]

read_from_ppu_status(p) == PpuPanic(p)

\* read_from_ppu_data that returns the byte it has just fetched
read_from_ppu_data_unbuffered(p) ==
    LET addr == PPUAddr_read(p.ppu_addr)
        incremented == increment_addr(p)
        result == PPUData_read(incremented.ppu_data, addr)
    IN  IF IsSome(result)
        THEN PpuOutcome([incremented EXCEPT !.internal_read_buffer = Unwrap(result)],
                        Unwrap(result), FALSE)
        ELSE PpuPanic(incremented)

read_from_ppu_data(p) ==
    LET addr == PPUAddr_read(p.ppu_addr)
        incremented == increment_addr(p)
        current_buffer == incremented.internal_read_buffer
        result == PPUData_read(incremented.ppu_data, addr)
    IN  IF IsSome(result)
        THEN PpuOutcome([incremented EXCEPT !.internal_read_buffer = Unwrap(result)],
                        current_buffer, FALSE)
        ELSE PpuPanic(incremented)

write_to_ppu_ctrl(p, data) == PpuOutcome([p EXCEPT !.ppu_ctrl = data], 0, FALSE)

write_to_ppu_mask(p, data) == PpuPanic(p)

\* write_to_ppu_addr that forgets to flip the w toggle
write_to_ppu_addr_keeps_w(p, data) ==
    PpuOutcome([p EXCEPT !.ppu_addr = PPUAddr_write(@, data, p.internal_w_register)],
               0, FALSE)

write_to_ppu_addr(p, data) ==
    PpuOutcome([p EXCEPT !.ppu_addr = PPUAddr_write(@, data, p.internal_w_register),
                         !.internal_w_register = ~@], 0, FALSE)

write_to_ppu_data(p, data) ==
    LET addr == PPUAddr_read(p.ppu_addr)
        written == PPUData_write(p.ppu_data, addr, data)
    IN  IF IsSome(written)
        THEN PpuOutcome([p EXCEPT !.ppu_data = Unwrap(written)], 0, FALSE)
        ELSE PpuPanic(p)

RECURSIVE PPU_read(_, _)
RECURSIVE PPU_write(_, _, _)

\* mirror_read with the mask 0x2003
mirror_read_wrong_mask(p, address) ==
    PPU_read(p, BitAnd(address \div 256, \h20, 0) * 256 + BitAnd(address % 256, \h03, 0))

\* address & 0x2007
mirror_read(p, address) ==
    PPU_read(p, BitAnd(address \div 256, \h20, 0) * 256 + BitAnd(address % 256, \h07, 0))

mirror_write(p, address, data) ==
    PPU_write(p, BitAnd(address \div 256, \h20, 0) * 256 + BitAnd(address % 256, \h07, 0),
              data)

\* impl Addressable for PPU
PPU_read(p, address) ==
    CASE address = \h2002 -> read_from_ppu_status(p)
      [] address = \h2004 -> PpuPanic(p)
      [] address = \h2007 -> read_from_ppu_data(p)
      [] \h2008 <= address /\ address <= \h3FFF -> mirror_read(p, address)
      [] OTHER -> PpuPanic(p)

PPU_write(p, address, data) ==
    CASE address = \h2000 -> write_to_ppu_ctrl(p, data)
      [] address = \h2001 -> write_to_ppu_mask(p, data)
      [] address \in {\h2003, \h2004, \h2005} -> PpuPanic(p)
      [] address = \h2006 -> write_to_ppu_addr(p, data)
      [] address = \h2007 -> write_to_ppu_data(p, data)
      [] \h2008 <= address /\ address <= \h3FFF -> mirror_write(p, address, data)
      [] OTHER -> PpuPanic(p)

\* The register a CPU-side address of the PPU stands for.
PpuRegister(address) ==
    IF \h2008 <= address /\ address <= \h3FFF THEN \h2000 + (address % 8)
    ELSE address

\* A host (or the CPU's bus) reads the PPU.
PpuRead ==
    /\ ~panicked
    /\ ppu_ops < MaxPpuOps
    /\ \E address \in PpuReadAddresses :
          LET out == PPU_read(ppu, address) IN
          /\ ppu' = out.ppu
          /\ panicked' = out.panicked
          /\ ppu_last' = [kind |-> "read", address |-> address, data |-> 0,
                          value |-> out.value]
    /\ ppu_ops' = ppu_ops + 1
    /\ UNCHANGED ppu_addr_writes
    /\ UNCHANGED <<bus, registers, state, fetching_operation, current_micro_instruction,
                   overflow_checks, bus_log, steps, completed, fetch_pc, fetch_steps,
                   start_registers>>
    /\ UNCHANGED <<bus_vars, device_vars, loader_vars>>

\* A host (or the CPU's bus) writes the PPU.
PpuWrite ==
    /\ ~panicked
    /\ ppu_ops < MaxPpuOps
    /\ \E address \in PpuWriteAddresses, data \in PpuDataSamples :
          LET out == PPU_write(ppu, address, data) IN
          /\ ppu' = out.ppu
          /\ panicked' = out.panicked
          /\ ppu_last' = [kind |-> "write", address |-> address, data |-> data,
                          value |-> 0]
          /\ ppu_addr_writes' =
                IF PpuRegister(address) = \h2006 /\ ~out.panicked
                THEN ppu_addr_writes + 1 ELSE ppu_addr_writes
    /\ ppu_ops' = ppu_ops + 1
    /\ UNCHANGED <<bus, registers, state, fetching_operation, current_micro_instruction,
                   overflow_checks, bus_log, steps, completed, fetch_pc, fetch_steps,
                   start_registers>>
    /\ UNCHANGED <<bus_vars, device_vars, loader_vars>>

\* The PPU buses the integration tests build (VRAM over $2000-$3FFF, palette
\* RAM over $3F00-$3FFF) and the two together.
PpuBuses ==
    LET vram == PpuBus_register(PpuBus_new, VRAM_new, \h2000, \h3FFF) IN
    { vram,
      PpuBus_register(PpuBus_new, PaletteRAM_new, \h3F00, \h3FFF),
      PpuBus_register(vram, PaletteRAM_new, \h3F00, \h3FFF) }

\* PPU::new(ppu_bus) beside a CPU that is never stepped.
InitPPU ==
    /\ \E ppu_bus \in PpuBuses : ppu = PPU_new(ppu_bus)
    /\ ppu_last = [kind |-> "none"]
    /\ ppu_ops = 0
    /\ ppu_addr_writes = 0
    /\ bus = <<>>
    /\ registers = Registers_new
    /\ state = "Fetching"
    /\ fetching_operation =
          MicroInstructionSequence(<<"ReadOperationCode", "DecodeOperation">>)
    /\ current_micro_instruction = None
    /\ overflow_checks = FALSE
    /\ panicked = FALSE
    /\ bus_log = <<>>
    /\ steps = 0
    /\ completed = 0
    /\ fetch_pc = 0
    /\ fetch_steps = 0
    /\ start_registers = registers
    /\ NoBus
    /\ NoDevice
    /\ NoLoader

NextPPU == PpuRead \/ PpuWrite

SpecPPU == InitPPU /\ [][NextPPU]_vars

(***************************************************************************)
(* One Addressable device driven directly, as the unit tests of vram.rs and *)
(* palette_ram.rs do: a host reads and writes it at sampled addresses; a    *)
(* panic inside the device ends the run.                                    *)
(***************************************************************************)
\* a CPU that is built and never stepped
IdleCPU ==
    /\ bus = <<>>
    /\ registers = Registers_new
    /\ state = "Fetching"
    /\ fetching_operation =
          MicroInstructionSequence(<<"ReadOperationCode", "DecodeOperation">>)
    /\ current_micro_instruction = None
    /\ overflow_checks = FALSE
    /\ panicked = FALSE
    /\ bus_log = <<>>
    /\ steps = 0
    /\ completed = 0
    /\ fetch_pc = 0
    /\ fetch_steps = 0
    /\ start_registers = registers

\* the addresses a host tries on each kind of device
DeviceAddresses(d) ==
    CASE d.kind = "VRAM" -> VramAddresses
      [] d.kind = "PaletteRAM" -> PaletteAddresses
      [] d.kind = "Memory" -> MemoryAddresses

DeviceRead ==
    /\ ~panicked
    /\ device_ops < MaxDeviceOps
    /\ \E address \in DeviceAddresses(dev) :
          LET value == Device_read(dev, address) IN
          /\ panicked' = ~IsSome(value)
          /\ device_last' = [kind |-> "read", address |-> address, data |-> 0,
                             value |-> IF IsSome(value) THEN Unwrap(value) ELSE 0]
    /\ device_ops' = device_ops + 1
    /\ UNCHANGED dev
    /\ UNCHANGED <<bus, registers, state, fetching_operation, current_micro_instruction,
                   overflow_checks, bus_log, steps, completed, fetch_pc, fetch_steps,
                   start_registers>>
    /\ UNCHANGED <<bus_vars, ppu_vars, loader_vars>>

DeviceWrite ==
    /\ ~panicked
    /\ device_ops < MaxDeviceOps
    /\ \E address \in DeviceAddresses(dev), data \in DeviceDataSamples :
          LET written == Device_write(dev, address, data) IN
          /\ dev' = IF IsSome(written) THEN Unwrap(written) ELSE dev
          /\ panicked' = ~IsSome(written)
          /\ device_last' = [kind |-> "write", address |-> address, data |-> data,
                             value |-> 0]
    /\ device_ops' = device_ops + 1
    /\ UNCHANGED <<bus, registers, state, fetching_operation, current_micro_instruction,
                   overflow_checks, bus_log, steps, completed, fetch_pc, fetch_steps,
                   start_registers>>
    /\ UNCHANGED <<bus_vars, ppu_vars, loader_vars>>

\* VRAM::new() as built and after set_mirroring(Vertical), PaletteRAM::new(),
\* Memory::new(size)
InitDevice ==
    /\ dev \in {VRAM_new, VRAM_set_mirroring(VRAM_new, "Vertical"), PaletteRAM_new}
                    \cup {Memory_new(size) : size \in MemorySizes}
    /\ device_last = [kind |-> "none"]
    /\ device_ops = 0
    /\ IdleCPU
    /\ NoBus
    /\ NoPPU
    /\ NoLoader

NextDevice == DeviceRead \/ DeviceWrite

SpecDevice == InitDevice /\ [][NextDevice]_vars

(***************************************************************************)
(* cartridge/: the ROM file loader.  A file is its 16 header bytes and its  *)
(* length; the bytes after the header are a fixed function of their         *)
(* position.  A Result is a record: ok with a value, or not ok with the     *)
(* error.                                                                   *)
(***************************************************************************)
NES_FILE_MAGIC_BYTES == <<\h4E, \h45, \h53, \h1A>>
PRG_UNIT_SIZE == 16
CHR_UNIT_SIZE == 8
TRAINER_SIZE == 512

Ok(v) == [ok |-> TRUE, value |-> v]
Err(e) == [ok |-> FALSE, error |-> e]

\* the byte a file holds at position `position` (from 0)
FileByte(reader, position) ==
    IF position < 16 THEN reader.header[position + 1]
    ELSE (position * 7 + 1) % 256

\* Read::read_exact at `position`: Some(bytes), None for UnexpectedEof
read_exact(reader, position, count) ==
    IF position + count <= reader.len
    THEN Some([i \in 1..count |-> FileByte(reader, position + i - 1)])
    ELSE None

\* cartridge/common/utils/file.rs
RECURSIVE read_banks(_, _, _, _)
read_banks(reader, position, bank_count, unit_size) ==
    IF bank_count = 0 THEN Some(<<>>)
    ELSE LET bank == read_exact(reader, position, unit_size) IN
         IF ~IsSome(bank) THEN None
         ELSE LET banks == read_banks(reader, position + unit_size,
                                      bank_count - 1, unit_size)
              IN  IF IsSome(banks) THEN Some(Unwrap(bank) \o Unwrap(banks)) ELSE None

\* the first four bytes of a header
Magic(header) == <<header[1], header[2], header[3], header[4]>>

\* nes_type_from_file that tests bit 3 of byte 7 alone
nes_type_from_file_bit3(reader) ==
    LET header == read_exact(reader, 0, 16) IN
    IF ~IsSome(header) THEN Err("UnexpectedEof")
    ELSE IF Magic(Unwrap(header)) # NES_FILE_MAGIC_BYTES THEN Err("MissingMagicBytes")
    ELSE IF BitAnd(Unwrap(header)[8], \h08, 0) = \h08 THEN Ok("Nes2")
    ELSE Ok("Ines")

\* Cartridge::nes_type_from_file
nes_type_from_file(reader) ==
    LET header == read_exact(reader, 0, 16) IN
    IF ~IsSome(header) THEN Err("UnexpectedEof")
    ELSE IF Magic(Unwrap(header)) # NES_FILE_MAGIC_BYTES THEN Err("MissingMagicBytes")
    ELSE IF BitAnd(Unwrap(header)[8], \h0C, 0) = \h08 THEN Ok("Nes2")
    ELSE Ok("Ines")

\* Ines::header_from_file
Ines_header_from_file(reader) ==
    LET header == read_exact(reader, 0, 16) IN
    IF ~IsSome(header) THEN Err("UnexpectedEof")
    ELSE LET h == Unwrap(header) IN
         IF Magic(h) # NES_FILE_MAGIC_BYTES THEN Err("MissingMagicBytes")
         ELSE IF BitAnd(h[8], \h0C, 0) = \h08 THEN Err("FileFormatNotSupported")
         ELSE Ok([prg_rom_size |-> h[5], chr_rom_size |-> h[6], flags_6 |-> h[7],
                  flags_7 |-> h[8], prg_ram_size |-> h[9], flags_9 |-> h[10],
                  flags_10 |-> h[11],
                  zero |-> <<h[12], h[13], h[14], h[15], h[16]>>])

\* Nes2::header_from_file
Nes2_header_from_file(reader) ==
    LET header == read_exact(reader, 0, 16) IN
    IF ~IsSome(header) THEN Err("UnexpectedEof")
    ELSE LET h == Unwrap(header) IN
         IF Magic(h) # NES_FILE_MAGIC_BYTES THEN Err("MissingMagicBytes")
         ELSE IF BitAnd(h[8], \h0C, 0) # \h08 THEN Err("FileFormatNotSupported")
         ELSE Ok([prg_rom_size |-> h[5], chr_rom_size |-> h[6], flags_6 |-> h[7],
                  flags_7 |-> h[8],
                  mapper |-> BitOr(BitAnd(h[7], \hF0, 0), h[8] \div 16, 0),
                  submapper |-> BitOr(BitAnd(h[7], \h0F, 0), BitAnd(h[8], \h0F, 0), 0),
                  prg_ram_size |-> h[9], chr_ram_size |-> h[10],
                  cpu_ppu_timing_mode |-> h[11],
                  vs_unisystem |-> IF h[12] # 0 THEN Some(h[12]) ELSE None,
                  extended_console_type |-> IF h[13] # 0 THEN Some(h[13]) ELSE None,
                  misc_rom_count |-> h[14], default_expansion_device |-> h[15]])

\* the part of from_file the two formats share: trainer, PRG banks, CHR banks,
\* the CHR banks read in units of chr_unit_size
read_roms(reader, header, chr_unit_size) ==
    LET is_trainer_present == BitAt(header.flags_6, 2) = 1
        trainer == IF is_trainer_present THEN read_exact(reader, 16, TRAINER_SIZE)
                   ELSE None
        prg_at == IF is_trainer_present THEN 16 + TRAINER_SIZE ELSE 16
        prg_rom == read_banks(reader, prg_at, header.prg_rom_size, PRG_UNIT_SIZE)
        chr_at == prg_at + header.prg_rom_size * PRG_UNIT_SIZE
        chr_rom == read_banks(reader, chr_at, header.chr_rom_size, chr_unit_size)
    IN  IF is_trainer_present /\ ~IsSome(trainer) THEN Err("UnexpectedEof")
        ELSE IF ~IsSome(prg_rom) THEN Err("UnexpectedEof")
        ELSE IF header.chr_rom_size # 0 /\ ~IsSome(chr_rom) THEN Err("UnexpectedEof")
        ELSE Ok([trainer |-> trainer,
                 mirroring |-> IF BitAt(header.flags_6, 0) = 1 THEN "Vertical"
                               ELSE "Horizontal",
                 prg_rom |-> Unwrap(prg_rom),
                 chr_rom |-> IF header.chr_rom_size # 0 THEN chr_rom ELSE None])

\* impl FileLoadable for Ines
Ines_from_file(reader) ==
    LET header == Ines_header_from_file(reader) IN
    IF ~header.ok THEN header
    ELSE LET roms == read_roms(reader, header.value, CHR_UNIT_SIZE) IN
         IF ~roms.ok THEN roms
         ELSE Ok([format |-> "Ines", header |-> header.value,
                  trainer |-> roms.value.trainer,
                  mirroring |-> roms.value.mirroring,
                  battery |-> BitAt(header.value.flags_6, 1) = 1,
                  four_screen_vram |-> BitAt(header.value.flags_6, 3) = 1,
                  prg_rom |-> roms.value.prg_rom,
                  chr_rom |-> roms.value.chr_rom,
                  mapper |-> BitOr(BitAnd(header.value.flags_6, \hF0, 0),
                                   BitAnd(header.value.flags_7, \hF0, 0), 0)])

\* impl FileLoadable for Nes2: the CHR banks are read in PRG_UNIT_SIZE units
Nes2_from_file(reader) ==
    LET header == Nes2_header_from_file(reader) IN
    IF ~header.ok THEN header
    ELSE LET roms == read_roms(reader, header.value, PRG_UNIT_SIZE) IN
         IF ~roms.ok THEN roms
         ELSE Ok([format |-> "Nes2", header |-> header.value,
                  prg_rom |-> roms.value.prg_rom,
                  chr_rom |-> roms.value.chr_rom,
                  trainer |-> roms.value.trainer,
                  prg_ram |-> header.value.prg_ram_size # 0,
                  chr_ram |-> header.value.chr_ram_size # 0,
                  mirroring |-> roms.value.mirroring])

\* Cartridge::from_file
Cartridge_from_file(reader) ==
    LET nes_type == nes_type_from_file(reader) IN
    IF ~nes_type.ok THEN nes_type
    ELSE IF nes_type.value = "Ines" THEN Ines_from_file(reader)
    ELSE Nes2_from_file(reader)

\* CartridgeData::chr_rom -> Some(rom), None for the panic
chr_rom(data) ==
    IF IsSome(data.chr_rom) THEN data.chr_rom ELSE None

\* CartridgeData::prg_rom
prg_rom(data) == data.prg_rom

\* one of the three from_file functions is called on the file
FromFile(loader, result) ==
    /\ ~panicked
    /\ cartridge' = [by |-> loader, result |-> result]
    /\ cartridge' # cartridge
    /\ chr_rom_access' = None
    /\ UNCHANGED file
    /\ UNCHANGED <<cpu_vars, bus_vars, ppu_vars, device_vars>>

InesFromFile == FromFile("Ines", Ines_from_file(file))
Nes2FromFile == FromFile("Nes2", Nes2_from_file(file))
CartridgeFromFile == FromFile("Cartridge", Cartridge_from_file(file))

\* chr_rom() is called on the cartridge a from_file returned
ChrRom ==
    /\ ~panicked
    /\ cartridge # <<>>
    /\ cartridge.result.ok
    /\ chr_rom_access = None
    /\ LET rom == chr_rom(cartridge.result.value) IN
       /\ panicked' = ~IsSome(rom)
       /\ chr_rom_access' = IF IsSome(rom) THEN Some([size |-> Len(Unwrap(rom))])
                            ELSE Some([size |-> -1])
    /\ UNCHANGED <<file, cartridge>>
    /\ UNCHANGED <<bus, registers, state, fetching_operation, current_micro_instruction,
                   overflow_checks, bus_log, steps, completed, fetch_pc, fetch_steps,
                   start_registers>>
    /\ UNCHANGED <<bus_vars, ppu_vars, device_vars>>

\* the lengths tried for a file with this header: too short for the header,
\* one byte short of and exactly what the iNES loader reads, what the NES 2.0
\* loader reads, and the length with 16 KiB PRG and 8 KiB CHR banks
FileLengths(header) ==
    LET trainer == IF BitAt(header[7], 2) = 1 THEN TRAINER_SIZE ELSE 0
        read == 16 + trainer + header[5] * PRG_UNIT_SIZE + header[6] * CHR_UNIT_SIZE
    IN  {15, read - 1, read,
         16 + trainer + header[5] * PRG_UNIT_SIZE + header[6] * PRG_UNIT_SIZE,
         16 + trainer + header[5] * 16384 + header[6] * 8192}

InitLoader ==
    /\ \E magic \in MagicSamples, prg \in 0..MaxBanks, chr \in 0..MaxBanks,
          flags_6 \in Flags6Samples, flags_7 \in Flags7Samples :
          LET header == magic \o <<prg, chr, flags_6, flags_7, 0, 0, 0, 0, 0, 0, 0, 0>>
          IN  \E len \in FileLengths(header) : file = [header |-> header, len |-> len]
    /\ cartridge = <<>>
    /\ chr_rom_access = <<>>
    /\ IdleCPU
    /\ NoBus
    /\ NoPPU
    /\ NoDevice

NextLoader == InesFromFile \/ Nes2FromFile \/ CartridgeFromFile \/ ChrRom

SpecLoader == InitLoader /\ [][NextLoader]_vars

(***************************************************************************)
(* Properties of the CPU's fetch / execute sequencing.                      *)
(***************************************************************************)
Opcode == registers.operation
CurrentIs(m) == current_micro_instruction = Some(m)

\* C1: from a new CPU with a supported opcode at bus[PC], the first step()
\* runs ReadOperationCode and leaves the CPU Fetching; the second runs
\* DecodeOperation and leaves it in Execution with the addressing sequence
\* (the operation sequence for an implied-mode opcode) at its first
\* microinstruction.
C1_FetchThenDecode ==
    /\ steps = 1 =>
          /\ CurrentIs("ReadOperationCode")
          /\ state = "Fetching"
    /\ (steps = 2 /\ Opcode \in SupportedOpcodes) =>
          /\ CurrentIs("DecodeOperation")
          /\ state = "Execution"
          /\ ~panicked
          /\ IsSome(registers.decoded_operation)
          /\ IF IsSome(registers.decoded_addressing_mode)
             THEN /\ get_operation_field(registers) = "decoded_addressing_mode"
                  /\ Unwrap(registers.decoded_addressing_mode).idx = 0
                  /\ Len(Unwrap(registers.decoded_addressing_mode).sequence) > 0
             ELSE /\ get_operation_field(registers) = "decoded_operation"
                  /\ Unwrap(registers.decoded_operation).idx = 0
                  /\ Len(Unwrap(registers.decoded_operation).sequence) > 0

C1_Witness ==
    /\ steps = 2
    /\ Opcode = \hB1
    /\ state = "Execution"
    /\ registers.decoded_addressing_mode = Some(indirect_y_addressing)

\* The last microinstruction of the decoded operation sequence has run.
LastMicroInstructionRan ==
    /\ ~panicked
    /\ IsSome(registers.decoded_operation)
    /\ LET operation == Unwrap(registers.decoded_operation) IN
       /\ operation.idx = Len(operation.sequence)
       /\ CurrentIs(operation.sequence[Len(operation.sequence)])

\* C2 as stated: once the last microinstruction of the operation sequence has
\* run, the CPU is Fetching and each sequence of that instruction has its
\* cursor reset or has been cleared.
C2_ResetOrCleared ==
    LastMicroInstructionRan =>
        /\ state = "Fetching"
        /\ \/ registers.decoded_operation = None
           \/ Unwrap(registers.decoded_operation).idx = 0
        /\ \/ registers.decoded_addressing_mode = None
           \/ Unwrap(registers.decoded_addressing_mode).idx = 0

\* C2 as the code has it: once the last microinstruction of the operation
\* sequence has run, the CPU is Fetching and both sequences of that
\* instruction are exhausted, the cursor of each at its length: neither is
\* reset, neither is cleared.
C2_FetchingAndExhausted ==
    LastMicroInstructionRan =>
        /\ state = "Fetching"
        /\ fetching_operation.idx = 0
        /\ is_completed(Unwrap(registers.decoded_operation))
        /\ Unwrap(registers.decoded_operation).idx > 0
        /\ IsSome(registers.decoded_addressing_mode) =>
              /\ is_completed(Unwrap(registers.decoded_addressing_mode))
              /\ Unwrap(registers.decoded_addressing_mode).idx > 0

C2_Witness ==
    /\ LastMicroInstructionRan
    /\ CurrentIs("WriteAbsolute")
    /\ Opcode = \hFE
    /\ Unwrap(registers.decoded_addressing_mode).idx = 3
    /\ Unwrap(registers.decoded_operation).idx = 2

(***************************************************************************)
(* Properties of the bus accesses of a step().                              *)
(***************************************************************************)
\* C3: every step() makes at most one bus access.
C3_AtMostOneAccess == Len(bus_log) <= 1

C3_Witness ==
    /\ Len(bus_log) = 1
    /\ bus_log[1].kind = "write"
    /\ CurrentIs("WriteZeroPageBalX")

\* C4 as stated: every step() makes exactly one bus access.
C4_ExactlyOneAccess == steps > 0 => Len(bus_log) = 1

\* The microinstructions whose function calls bus.read or bus.write.
BusMicroInstructions ==
    {"ReadOperationCode", "ImmediateRead", "ReadAdl", "ReadAdh", "ReadZeroPage",
     "ReadAbsolute", "ReadBal", "ReadBah", "ReadAdlIndirectBal", "ReadAdhIndirectBal",
     "ReadZeroPageBalX", "ReadZeroPageBalY", "ReadAdlAdhAbsoluteX",
     "ReadAdlAdhAbsoluteY", "ReadIal", "ReadBalIndirectIal", "ReadBahIndirectIal",
     "WriteZeroPage", "WriteZeroPageBalX", "WriteZeroPageBalY", "WriteAbsolute",
     "PushAccumulator", "PushStatusRegister", "PullAccumulator", "PullStatusRegister"}

\* C4 as the code has it: a step() that runs a bus microinstruction makes
\* exactly one bus access (at most one when a panic cuts it short); a step()
\* that runs DecodeOperation, Empty or a register-only microinstruction makes
\* none.
C4_OneAccessPerBusMicroInstruction ==
    steps > 0 =>
        IF Unwrap(current_micro_instruction) \in BusMicroInstructions
        THEN /\ Len(bus_log) <= 1
             /\ ~panicked => Len(bus_log) = 1
        ELSE Len(bus_log) = 0

C4_Witness ==
    /\ CurrentIs("LoadAccumulator")
    /\ Len(bus_log) = 0
    /\ completed = 1

(***************************************************************************)
(* Properties of the Bus's address mapping.                                  *)
(***************************************************************************)
\* The registration calls whose range covers `address`, by device index.
Covering(address) ==
    { i \in 1..Len(registered) :
        registered[i].start <= address /\ address <= registered[i].end }
IsCovered(address) == Covering(address) # {}
LatestCovering(address) ==
    CHOOSE i \in Covering(address) : \A j \in Covering(address) : j <= i
Accessed == accesses' = accesses + 1

\* C5: a read or a write of an address inside the range some device was
\* registered with goes to the device of the latest such registration and to
\* no other: a read returns that device's byte, a write stores into that
\* device, every other device is left as it was.
C5_DispatchToRegisteredDevice ==
    [][(Accessed /\ IsCovered(last_access'.address)) =>
          LET address == last_access'.address
              d == LatestCovering(address)
          IN  /\ last_access'.device = d
              /\ \A j \in 1..Len(devices) : j # d + 1 => devices'[j] = devices[j]
              /\ Len(devices') = Len(devices)
              /\ last_access'.kind = "read" =>
                    /\ last_access'.data = devices[d + 1].ram[address]
                    /\ devices' = devices
              /\ last_access'.kind = "write" =>
                    devices'[d + 1].ram[address] = last_access'.data]_vars

C5_Witness ==
    /\ Len(registered) = 2
    /\ last_access.kind = "read"
    /\ last_access.device = 1
    /\ last_access.data = \h5A
    /\ devices[3].ram[last_access.address] # \h5A

\* C6: each address belongs to the most recent registration that covers it;
\* an earlier device keeps the addresses no later registration covers.
C6_LatestRegistrationOwns ==
    \A address \in Addresses :
        IsCovered(address) => mappings[address] = LatestCovering(address)

C6_Witness ==
    /\ Len(registered) = 2
    /\ registered[1].start < registered[2].start
    /\ registered[2].start <= registered[1].end
    /\ mappings[registered[1].start] = 1
    /\ mappings[registered[2].start] = 2

\* C7: an address no registration covers is mapped to the Empty device at
\* index 0: reading it returns 0, writing it changes no device and no
\* mapping entry.
C7_UncoveredIsEmptyDevice ==
    [][(Accessed /\ ~IsCovered(last_access'.address)) =>
          /\ mappings[last_access'.address] = 0
          /\ devices[1] = EmptyDevice
          /\ last_access'.device = 0
          /\ last_access'.kind = "read" => last_access'.data = 0
          /\ devices' = devices
          /\ mappings' = mappings]_vars

C7_Witness ==
    /\ Len(registered) = 2
    /\ last_access.kind = "read"
    /\ ~IsCovered(last_access.address)
    /\ last_access.data = 0
    /\ accesses = 2

(***************************************************************************)
(* Properties of the program counter, the loads and the decoder.            *)
(***************************************************************************)
\* The microinstructions that consume the byte at PC.
PcAdvancing ==
    {"DecodeOperation", "ImmediateRead", "ReadAdl", "ReadAdh", "ReadBal",
     "ReadBah", "ReadIal"}

\* Length in bytes of a 6502 instruction, from the layout of its opcode.
InstructionLength(opcode) ==
    LET low == opcode % 16
        high == opcode \div 16
    IN  CASE low \in {8, 10} -> 1
          [] low \in {12, 13, 14} -> 3
          [] low = 9 -> IF high % 2 = 0 THEN 2 ELSE 3
          [] OTHER -> 2

\* C8: a step() that runs to its end adds 1 to PC when its microinstruction
\* is DecodeOperation, ImmediateRead, ReadAdl, ReadAdh, ReadBal, ReadBah or
\* ReadIal and leaves PC alone otherwise (ReadOperationCode included); after
\* a whole instruction PC is the PC of its opcode plus 1 plus the number of
\* its operand bytes.
C8_ProgramCounter ==
    [][(steps' = steps + 1 /\ ~panicked') =>
          /\ registers'.program_counter =
                registers.program_counter
                + (IF Unwrap(current_micro_instruction') \in PcAdvancing
                   THEN 1 ELSE 0)
          /\ completed' = completed + 1 =>
                registers'.program_counter =
                    fetch_pc' + InstructionLength(registers'.operation)]_vars

C8_Witness ==
    /\ completed = 1
    /\ Opcode = \hA9
    /\ fetch_pc = 0
    /\ registers.program_counter = 2

\* The byte the bus holds at `address`, -1 if the program never touched it.
Peek(address) == IF address \in DOMAIN bus THEN bus[address] ELSE -1

\* The load opcodes: destination register and addressing mode.
LoadOpcodes ==
    (\hA9 :> <<"a", "Immediate">>) @@ (\hA5 :> <<"a", "ZeroPage">>) @@
    (\hB5 :> <<"a", "ZeroPageX">>) @@ (\hAD :> <<"a", "Absolute">>) @@
    (\hBD :> <<"a", "AbsoluteX">>) @@ (\hB9 :> <<"a", "AbsoluteY">>) @@
    (\hA1 :> <<"a", "IndirectX">>) @@ (\hB1 :> <<"a", "IndirectY">>) @@
    (\hA2 :> <<"x", "Immediate">>) @@ (\hA6 :> <<"x", "ZeroPage">>) @@
    (\hB6 :> <<"x", "ZeroPageY">>) @@ (\hAE :> <<"x", "Absolute">>) @@
    (\hBE :> <<"x", "AbsoluteY">>) @@
    (\hA0 :> <<"y", "Immediate">>) @@ (\hA4 :> <<"y", "ZeroPage">>) @@
    (\hB4 :> <<"y", "ZeroPageX">>) @@ (\hAC :> <<"y", "Absolute">>) @@
    (\hBC :> <<"y", "AbsoluteX">>)

\* The effective address of the instruction fetched at fetch_pc, by mode.
EffectiveAddress(mode) ==
    LET operand1 == Peek(fetch_pc + 1)
        operand2 == Peek(fetch_pc + 2)
        pointer == (operand1 + registers.x) % 256
    IN  CASE mode = "Immediate" -> fetch_pc + 1
          [] mode = "ZeroPage" -> operand1
          [] mode = "ZeroPageX" -> (operand1 + registers.x) % 256
          [] mode = "ZeroPageY" -> (operand1 + registers.y) % 256
          [] mode = "Absolute" -> operand2 * 256 + operand1
          [] mode = "AbsoluteX" -> (operand2 * 256 + operand1 + registers.x) % 65536
          [] mode = "AbsoluteY" -> (operand2 * 256 + operand1 + registers.y) % 65536
          [] mode = "IndirectX" -> Peek((pointer + 1) % 256) * 256 + Peek(pointer)
          [] mode = "IndirectY" ->
                (Peek(operand1 + 1) * 256 + Peek(operand1) + registers.y) % 65536

\* C9: when an LDA, LDX or LDY of any addressing mode has run its last
\* microinstruction, the destination register holds the byte at the mode's
\* effective address, Zero is set iff that byte is 0, Negative iff its bit 7
\* is set, and the CPU is Fetching.
C9_LoadResult ==
    (LastMicroInstructionRan /\ Opcode \in DOMAIN LoadOpcodes) =>
        LET destination == LoadOpcodes[Opcode][1]
            byte == Peek(EffectiveAddress(LoadOpcodes[Opcode][2]))
        IN  /\ byte \in Byte
            /\ registers[destination] = byte
            /\ is_flag_set(registers, CPUFlag.Zero) <=> byte = 0
            /\ is_flag_set(registers, CPUFlag.Negative) <=> byte >= 128
            /\ state = "Fetching"

C9_Witness ==
    /\ completed = 1
    /\ Opcode = \hBC
    /\ registers.x = \hFF
    /\ registers.y = \h44
    /\ ~is_flag_set(registers, CPUFlag.Negative)
    /\ EffectiveAddress("AbsoluteX") = \h00FE

\* C10: DecodeOperation of an opcode byte that is not in the opcode table
\* ends in a fatal error and installs no sequence: the registers, the decoded
\* addressing and operation sequences among them, stay as they were.
C10_UnknownOpcodeAborts ==
    [][(steps' = steps + 1
        /\ current_micro_instruction' = Some("DecodeOperation")
        /\ registers.operation \notin SupportedOpcodes) =>
          /\ panicked'
          /\ registers' = registers
          /\ registers'.decoded_addressing_mode = registers.decoded_addressing_mode
          /\ registers'.decoded_operation = registers.decoded_operation
          /\ bus' = bus]_vars

C10_Witness ==
    /\ panicked
    /\ CurrentIs("DecodeOperation")
    /\ Opcode = \h02
    /\ registers.decoded_addressing_mode = None
    /\ registers.decoded_operation = None
    /\ registers.program_counter = fetch_pc

(***************************************************************************)
(* Properties of the interpreter's fatal conditions and of the stack.       *)
(***************************************************************************)
\* C11 as stated: an unknown opcode is the only fatal condition: a step()
\* that aborts has just decoded an opcode outside the opcode table.
C11_OnlyUnknownOpcodeAborts ==
    panicked =>
        /\ CurrentIs("DecodeOperation")
        /\ Opcode \notin SupportedOpcodes

PpuAddr == PPUAddr_read(ppu.ppu_addr)
\* the last call made on the PPU was a read / a write that reached `register`
PpuJustRead(register) ==
    /\ ppu_ops' = ppu_ops + 1
    /\ ppu_last'.kind = "read"
    /\ PpuRegister(ppu_last'.address) = register
PpuJustWrote(register) ==
    /\ ppu_ops' = ppu_ops + 1
    /\ ppu_last'.kind = "write"
    /\ PpuRegister(ppu_last'.address) = register
\* PPUADDR after the increment PPUCTRL selects
PpuAddrAdvanced ==
    (PpuAddr + (IF (ppu.ppu_ctrl \div 4) % 2 = 1 THEN 32 ELSE 1)) % 16384
\* the byte the PPU bus holds at `address`, None where the device rejects it
PpuBusAt(p, address) == PPUData_read(p.ppu_data, address)

\* C13: the writes to $2006 alternate between the halves of PPUADDR: the 1st,
\* 3rd, .. write since the PPU was built sets the high byte (kept inside 14
\* bits), the 2nd, 4th, .. sets the low byte, and each write flips w.
C13_AddrWritesAlternate ==
    [][(PpuJustWrote(\h2006) /\ ~panicked') =>
          /\ ppu_addr_writes' = ppu_addr_writes + 1
          /\ ppu_addr_writes % 2 = 0 =>
                /\ ppu'.ppu_addr.high_addr = ppu_last'.data % 64
                /\ ppu'.ppu_addr.low_addr = ppu.ppu_addr.low_addr
          /\ ppu_addr_writes % 2 = 1 =>
                /\ ppu'.ppu_addr.low_addr = ppu_last'.data
                /\ ppu'.ppu_addr.high_addr = ppu.ppu_addr.high_addr
          /\ ppu'.internal_w_register = ~ppu.internal_w_register
          /\ ppu'.internal_w_register = (ppu_addr_writes' % 2 = 0)]_vars

C13_Witness ==
    /\ ppu_addr_writes = 3
    /\ ppu_last.kind = "write"
    /\ ppu_last.data = \h23
    /\ ppu.ppu_addr = [high_addr |-> \h23, low_addr |-> \h06]
    /\ ~ppu.internal_w_register

\* C14 as stated: a write of v to $2007 stores v on the PPU bus at PPUADDR
\* and then advances PPUADDR by the PPUCTRL increment.
C14_DataWriteStoresAndAdvances ==
    [][(PpuJustWrote(\h2007) /\ ~panicked') =>
          /\ PpuBus_mapping(ppu.ppu_data.ppu_bus, PpuAddr) # 0 =>
                PpuBusAt(ppu', PpuAddr) = Some(ppu_last'.data)
          /\ PPUAddr_read(ppu'.ppu_addr) = PpuAddrAdvanced]_vars

\* C15: a read of $2007 advances PPUADDR by the PPUCTRL increment, and at a
\* non-palette address it returns the read buffer as it was and refills the
\* buffer with the PPU-bus byte at the PPUADDR the read started with.
C15_DataReadIsBuffered ==
    [][(PpuJustRead(\h2007) /\ ~panicked') =>
          /\ PPUAddr_read(ppu'.ppu_addr) = PpuAddrAdvanced
          /\ PpuAddr < \h3F00 =>
                /\ ppu_last'.value = ppu.internal_read_buffer
                /\ Some(ppu'.internal_read_buffer) = PpuBusAt(ppu, PpuAddr)
                /\ ppu'.ppu_data = ppu.ppu_data]_vars

C15_Witness ==
    /\ ppu_ops = 4
    /\ ppu_last.kind = "read"
    /\ ppu_last.value = \h66
    /\ PpuAddr = \h2302
    /\ PpuBusAt(ppu, \h2300) = Some(\h66)
    /\ ppu.internal_read_buffer = \h00

\* C16 as stated: a read of $2007 while PPUADDR is a palette address returns
\* the byte the PPU bus holds at that address, not the read buffer.
C16_PaletteReadIsDirect ==
    [][(PpuJustRead(\h2007) /\ ~panicked' /\ \h3F00 <= PpuAddr) =>
          Some(ppu_last'.value) = PpuBusAt(ppu, PpuAddr)]_vars

\* C17 as stated: a read of $2002 completes and resets the w toggle, so the
\* next $2006 write sets the high byte.
C17_StatusReadResetsToggle ==
    [][PpuJustRead(\h2002) =>
          /\ ~panicked'
          /\ ppu'.internal_w_register = TRUE]_vars

\* C18: whatever $2006 writes, $2007 reads and writes and increments were
\* made, the combined PPUADDR lies in [0, $3FFF].
C18_AddrWithin14Bits ==
    /\ PpuAddr >= 0
    /\ PpuAddr <= \h3FFF
    /\ ppu.ppu_addr.high_addr \in 0..\h3F
    /\ ppu.ppu_addr.low_addr \in Byte

C18_Witness ==
    /\ ppu_last.kind = "read"
    /\ ~panicked
    /\ ppu_addr_writes = 2
    /\ ppu_last.value = \h00
    /\ PpuAddr = \h0000

\* the CPU-side addresses of the mirror range tried in every state
MirrorSamples == {\h2008, \h2009, \h200E, \h200F, \h2247, \h3456, \h3FFE, \h3FFF}

\* C19: a read or a write of the PPU at an address a in [$2008, $3FFF] does
\* what the same access at $2000 | (a & 7) does: same returned value, same
\* PPU afterwards, same failure if it fails.
C19_MirrorsActLikeRegisters ==
    \A address \in MirrorSamples :
        /\ PPU_read(ppu, address) = PPU_read(ppu, \h2000 + (address % 8))
        /\ \A data \in PpuDataSamples :
              PPU_write(ppu, address, data) = PPU_write(ppu, \h2000 + (address % 8), data)

C19_Witness ==
    /\ ppu_ops = 4
    /\ ppu_last.kind = "read"
    /\ ppu_last.address = \h2247
    /\ ppu_last.value = \h66
    /\ ~panicked
    /\ PPU_write(ppu, \h3FFE, \h23).ppu.ppu_addr.high_addr = \h23

\* C20 as stated: a write to $2009 reaches PPUMASK and is accepted: it
\* completes and leaves PPUADDR, w, the read buffer and PPUCTRL as they were.
C20_MaskWriteAccepted ==
    [][(ppu_ops' = ppu_ops + 1 /\ ppu_last'.kind = "write"
        /\ ppu_last'.address = \h2009) =>
          /\ ~panicked'
          /\ ppu'.ppu_addr = ppu.ppu_addr
          /\ ppu'.internal_w_register = ppu.internal_w_register
          /\ ppu'.internal_read_buffer = ppu.internal_read_buffer
          /\ ppu'.ppu_ctrl = ppu.ppu_ctrl]_vars

(***************************************************************************)
(* Properties of the devices behind the buses.                              *)
(***************************************************************************)
\* the last call made on the device was a write / a read that returned
DeviceJustWrote ==
    /\ device_ops' = device_ops + 1
    /\ device_last'.kind = "write"
    /\ ~panicked'
DeviceJustRead ==
    /\ device_ops' = device_ops + 1
    /\ device_last'.kind = "read"
    /\ ~panicked'
\* the physical table (1 or 2) behind a nametable address under a mirroring
NametableOf(mirroring, address) ==
    LET quadrant == (address - \h2000) \div \h0400 IN
    IF mirroring = "Horizontal"
    THEN (IF quadrant \in {0, 1} THEN 1 ELSE 2)
    ELSE (IF quadrant \in {0, 2} THEN 1 ELSE 2)
SameNametableByte(mirroring, a, b) ==
    /\ NametableOf(mirroring, a) = NametableOf(mirroring, b)
    /\ a % \h0400 = b % \h0400

\* the addresses read back after each write: both ends and the second byte
\* of each of the four quadrants
NametableProbes ==
    {\h2000 + quadrant * \h0400 + offset : quadrant \in 0..3, offset \in {\h000, \h001, \h3FF}}

\* C21: a VRAM write at a in [$2000, $2FFF] is read back at a' in
\* [$2000, $2FFF] iff a and a' fall in the same physical table (quadrants
\* 0,1 / 2,3 under horizontal, 0,2 / 1,3 under vertical mirroring) at the same
\* offset mod $400; every other byte reads as before the write.
C21_NametableAliasing ==
    [][(DeviceJustWrote /\ dev.kind = "VRAM") =>
          /\ device_last'.address \in \h2000..\h2FFF
          /\ \A b \in NametableProbes :
                Device_read(dev', b) =
                    IF SameNametableByte(dev.mirroring, device_last'.address, b)
                    THEN Some(device_last'.data)
                    ELSE Device_read(dev, b)]_vars

C21_Witness ==
    /\ dev # <<>>
    /\ dev.kind = "VRAM"
    /\ dev.mirroring = "Horizontal"
    /\ device_last.kind = "read"
    /\ device_last.address = \h2000
    /\ device_last.value = \h12
    /\ Device_read(dev, \h2400) = Some(\h12)
    /\ Device_read(dev, \h2800) = Some(\h34)
    /\ Device_read(dev, \h2C00) = Some(\h34)
    /\ ~panicked

\* the device has just been called at an address of [low, high]
DeviceJustCalled(kind, low, high) ==
    /\ device_ops' = device_ops + 1
    /\ dev.kind = kind
    /\ device_last'.address \in low..high

\* C22 as stated: a VRAM read or write at a in [$3000, $3EFF] succeeds and
\* accesses the byte the access at a - $1000 accesses.
C22_VramUpperMirror ==
    [][DeviceJustCalled("VRAM", \h3000, \h3EFF) =>
          /\ ~panicked'
          /\ device_last'.kind = "read" =>
                Some(device_last'.value) = Device_read(dev, device_last'.address - \h1000)
          /\ device_last'.kind = "write" =>
                Device_read(dev', device_last'.address - \h1000) = Some(device_last'.data)]_vars

\* C23 as stated: a palette write at a in [$3F00, $3F1F] is read back at a
\* and leaves the byte read at every other b in [$3F00, $3F1F] unchanged.
C23_PaletteBytesIndependent ==
    [][(DeviceJustWrote /\ DeviceJustCalled("PaletteRAM", \h3F00, \h3F1F)) =>
          \A b \in \h3F00..\h3F1F :
              Device_read(dev', b) =
                  IF b = device_last'.address THEN Some(device_last'.data)
                  ELSE Device_read(dev, b)]_vars

\* the mirror addresses compared with their base in every state
PaletteMirrorSamples ==
    {\h3F20, \h3F21, \h3F2F, \h3F30, \h3F3F, \h3F44, \h3FE1, \h3FF0, \h3FFF}

\* C24: a palette RAM read or write at a in [$3F20, $3FFF] does what the
\* same access at $3F00 + (a & $1F) does: same byte read, same RAM afterwards.
C24_PaletteMirror ==
    (dev # <<>> /\ dev.kind = "PaletteRAM") =>
        \A address \in PaletteMirrorSamples :
            /\ Device_read(dev, address) = Device_read(dev, \h3F00 + (address % 32))
            /\ IsSome(Device_read(dev, address))
            /\ \A data \in DeviceDataSamples :
                  /\ Device_write(dev, address, data)
                        = Device_write(dev, \h3F00 + (address % 32), data)
                  /\ IsSome(Device_write(dev, address, data))

C24_Witness ==
    /\ dev # <<>>
    /\ dev.kind = "PaletteRAM"
    /\ device_last.kind = "read"
    /\ device_last.address = \h3F30
    /\ device_last.value = \h34
    /\ Device_read(dev, \h3F10) = Some(\h34)
    /\ Device_read(dev, \h3F00) = Some(\h00)
    /\ ~panicked

\* C25 as stated: a CPU RAM read or write at a in [$0000, $1FFF] succeeds and
\* accesses the byte at a & $07FF.
C25_RamMirror ==
    [][DeviceJustCalled("Memory", \h0000, \h1FFF) =>
          /\ ~panicked'
          /\ device_last'.kind = "read" =>
                Some(device_last'.value) = Device_read(dev, device_last'.address % \h0800)
          /\ device_last'.kind = "write" =>
                Device_read(dev', device_last'.address % \h0800) = Some(device_last'.data)]_vars

(***************************************************************************)
(* Properties of the cartridge loader.                                      *)
(***************************************************************************)
\* the file holds a whole header
HasHeader == file # <<>> /\ file.len >= 16
ValidMagic == Magic(file.header) = <<\h4E, \h45, \h53, \h1A>>
\* bits 2..3 of header byte 7 are 0b10
Nes2Marked == (file.header[8] \div 4) % 4 = 2
TrainerBytes == IF (file.header[7] \div 4) % 2 = 1 THEN 512 ELSE 0
\* a from_file call has returned an iNES cartridge
InesLoaded ==
    /\ cartridge # <<>>
    /\ cartridge.result.ok
    /\ cartridge.result.value.format = "Ines"

\* C26: on a 16-byte header without the magic every parser fails with
\* MissingMagicBytes; with the magic the iNES parser fails with
\* FileFormatNotSupported exactly when bits 2..3 of byte 7 are 0b10, the
\* NES 2.0 parser exactly when they are not, and Cartridge::from_file gives
\* what the parser that accepts the header gives.
C26_LoaderDispatch ==
    HasHeader =>
        /\ ~ValidMagic =>
              /\ Ines_header_from_file(file) = Err("MissingMagicBytes")
              /\ Nes2_header_from_file(file) = Err("MissingMagicBytes")
              /\ nes_type_from_file(file) = Err("MissingMagicBytes")
              /\ Ines_from_file(file) = Err("MissingMagicBytes")
              /\ Nes2_from_file(file) = Err("MissingMagicBytes")
              /\ Cartridge_from_file(file) = Err("MissingMagicBytes")
        /\ ValidMagic =>
              /\ Ines_header_from_file(file) = Err("FileFormatNotSupported") <=> Nes2Marked
              /\ Ines_header_from_file(file).ok <=> ~Nes2Marked
              /\ Nes2_header_from_file(file) = Err("FileFormatNotSupported") <=> ~Nes2Marked
              /\ Nes2_header_from_file(file).ok <=> Nes2Marked
              /\ Ines_from_file(file) = Err("FileFormatNotSupported") <=> Nes2Marked
              /\ Nes2_from_file(file) = Err("FileFormatNotSupported") <=> ~Nes2Marked
              /\ Cartridge_from_file(file) =
                    IF Nes2Marked THEN Nes2_from_file(file) ELSE Ines_from_file(file)
              /\ Cartridge_from_file(file) # Err("FileFormatNotSupported")
        /\ cartridge # <<>> =>
              cartridge.result = CASE cartridge.by = "Ines" -> Ines_from_file(file)
                                   [] cartridge.by = "Nes2" -> Nes2_from_file(file)
                                   [] OTHER -> Cartridge_from_file(file)

C26_Witness ==
    /\ HasHeader
    /\ ValidMagic
    /\ file.header[8] = \h28
    /\ cartridge # <<>>
    /\ cartridge.by = "Cartridge"
    /\ cartridge.result.ok
    /\ cartridge.result.value.format = "Nes2"
    /\ Ines_from_file(file) = Err("FileFormatNotSupported")

\* C27 as stated: a successful iNES load of a header with PRG count n and
\* CHR count m yields n x 16384 PRG bytes and (m > 0) m x 8192 CHR bytes, in
\* file order after the optional 512-byte trainer.
C27_BankSizes ==
    InesLoaded =>
        LET n == file.header[5]
            m == file.header[6]
            data == cartridge.result.value
            prg_at == 16 + TrainerBytes
        IN  /\ Len(prg_rom(data)) = n * 16384
            /\ \A i \in 1..Len(prg_rom(data)) :
                  prg_rom(data)[i] = FileByte(file, prg_at + i - 1)
            /\ m > 0 =>
                  /\ IsSome(data.chr_rom)
                  /\ Len(Unwrap(data.chr_rom)) = m * 8192
                  /\ \A i \in 1..Len(Unwrap(data.chr_rom)) :
                        Unwrap(data.chr_rom)[i] = FileByte(file, prg_at + n * 16384 + i - 1)

\* C28 as stated: for a cartridge whose header CHR count is 0, chr_rom()
\* returns (reporting the absence as a value) instead of aborting.
C28_AbsentChrRomIsValue ==
    (chr_rom_access # <<>> /\ cartridge.result.value.header.chr_rom_size = 0) =>
        /\ cartridge.result.value.chr_rom = None
        /\ ~panicked

(***************************************************************************)
(* Properties of AddressRange.                                              *)
(***************************************************************************)
\* C29: AddressRange::new(start, end) produces no range when start > end and
\* the range [start, end] unchanged when start <= end; no range with
\* start > end is ever registered, and a rejected construction ends the run
\* before the bus is touched.
C29_RangeRejectedOrUnchanged ==
    /\ \A start \in Addresses, end \in Addresses :
          LET range == AddressRange_new(start, end) IN
          /\ start > end => ~IsSome(range)
          /\ start <= end =>
                /\ IsSome(range)
                /\ Unwrap(range).start = start
                /\ Unwrap(range).end = end
    /\ \A i \in 1..Len(registered) : registered[i].start <= registered[i].end
    /\ Len(devices) = Len(registered) + 1

C29_Witness ==
    /\ panicked
    /\ Len(registered) = 1
    /\ registered[1] = [start |-> 1, end |-> 2]
    /\ Len(devices) = 2
    /\ mappings[0] = 0
    /\ mappings[2] = 1

(***************************************************************************)
(* Properties of the Execution state.                                       *)
(***************************************************************************)
\* the addressing sequence exists and its cursor has not reached its end
AddressingPending(r) ==
    /\ r.decoded_addressing_mode # <<>>
    /\ r.decoded_addressing_mode[1].idx < Len(r.decoded_addressing_mode[1].sequence)

\* C30: a step() taken in the Execution state runs the next microinstruction
\* of the addressing sequence while that sequence exists and is unfinished,
\* and the next one of the operation sequence otherwise; it advances that
\* cursor by one and leaves the other alone, records the microinstruction it
\* ran as current, and no operation microinstruction has run while the
\* addressing sequence is unfinished.
C30_AddressingBeforeOperation ==
    [][(state = "Execution" /\ steps' = steps + 1 /\ ~panicked') =>
          LET addressing == registers.decoded_addressing_mode
              operation == registers.decoded_operation
          IN  /\ operation # <<>>
              /\ AddressingPending(registers) =>
                    /\ operation[1].idx = 0
                    /\ current_micro_instruction' =
                          <<addressing[1].sequence[addressing[1].idx + 1]>>
                    /\ registers'.decoded_addressing_mode[1].idx = addressing[1].idx + 1
                    /\ registers'.decoded_addressing_mode[1].sequence = addressing[1].sequence
                    /\ registers'.decoded_operation = operation
              /\ ~AddressingPending(registers) =>
                    /\ current_micro_instruction' =
                          <<operation[1].sequence[operation[1].idx + 1]>>
                    /\ registers'.decoded_operation[1].idx = operation[1].idx + 1
                    /\ registers'.decoded_operation[1].sequence = operation[1].sequence
                    /\ registers'.decoded_addressing_mode = addressing
              /\ current_micro_instruction' \in
                    {<<"ReadZeroPage">>, <<"ReadAbsolute">>, <<"ImmediateRead">>} =>
                        Len(bus_log') = 1 /\ bus_log'[1].kind = "read"]_vars

C30_Witness ==
    /\ ~panicked
    /\ Opcode = \hA1
    /\ registers.decoded_addressing_mode # <<>>
    /\ registers.decoded_addressing_mode[1].idx = 5
    /\ registers.decoded_addressing_mode[1].idx
          = Len(registers.decoded_addressing_mode[1].sequence)
    /\ registers.decoded_operation # <<>>
    /\ registers.decoded_operation[1].idx = 1
    /\ CurrentIs(registers.decoded_operation[1].sequence[1])

(***************************************************************************)
(* Properties of indexed addressing and of the read-modify-write            *)
(* microinstructions.                                                        *)
(***************************************************************************)
\* The zero-page indexed microinstructions: the index register each one adds
\* to BAL, the extra offset, and the kind of bus access it makes.
ZeroPageIndexed ==
    ("ReadZeroPageBalX" :> <<"x", 0, "read">>) @@
    ("WriteZeroPageBalX" :> <<"x", 0, "write">>) @@
    ("ReadZeroPageBalY" :> <<"y", 0, "read">>) @@
    ("ReadAdlIndirectBal" :> <<"x", 0, "read">>) @@
    ("ReadAdhIndirectBal" :> <<"x", 1, "read">>)

\* C31 as stated: a step() that runs ReadZeroPageBalX, WriteZeroPageBalX,
\* ReadZeroPageBalY, ReadAdlIndirectBal or ReadAdhIndirectBal does not fail
\* and makes its one bus access at (BAL + index) mod 256, plus one more mod
\* 256 for ReadAdhIndirectBal, whatever BAL and the index register hold.
C31_ZeroPageIndexedWraps ==
    [][(steps' = steps + 1 /\ IsSome(current_micro_instruction')
        /\ Unwrap(current_micro_instruction') \in DOMAIN ZeroPageIndexed) =>
          LET entry == ZeroPageIndexed[Unwrap(current_micro_instruction')]
              address == (registers.bal + registers[entry[1]] + entry[2]) % 256
          IN  /\ ~panicked'
              /\ bus_log' = <<[kind |-> entry[3], address |-> address]>>]_vars

\* The microinstructions that add an index register to BAH:BAL, with the
\* register each one adds.
AbsoluteIndexed ==
    ("ReadAdlAdhAbsoluteX" :> "x") @@ ("ReadAdlAdhAbsoluteY" :> "y")

\* INC and DEC absolute,X with what each adds to the byte, modulo 256.
ModifyAbsoluteX == (\hFE :> 1) @@ (\hDE :> 255)

\* The address ADH:ADL of a register file.
Latched(r) == r.adh * 256 + r.adl

\* C32: ReadAdlAdhAbsoluteX / ReadAdlAdhAbsoluteY latch ADH:ADL =
\* (BAH:BAL + index) mod $10000 and read MB from that address; WriteAbsolute
\* writes MB to the latched address; and while INC/DEC absolute,X runs, the
\* only byte of the bus that changes is the one at (base + X) mod $10000,
\* which the WriteAbsolute step replaces by its old value plus or minus one.
C32_AbsoluteIndexedLatch ==
    [][(steps' = steps + 1 /\ IsSome(current_micro_instruction')) =>
          LET micro == Unwrap(current_micro_instruction')
              base == Peek(fetch_pc + 2) * 256 + Peek(fetch_pc + 1)
              target == (base + registers.x) % 65536
          IN  /\ micro \in DOMAIN AbsoluteIndexed =>
                    LET address == (registers.bah * 256 + registers.bal
                                    + registers[AbsoluteIndexed[micro]]) % 65536
                    IN  /\ ~panicked'
                        /\ Latched(registers') = address
                        /\ bus_log' = <<ReadAccess(address)>>
                        /\ registers'.memory_buffer = bus'[address]
              /\ micro = "WriteAbsolute" =>
                    /\ ~panicked'
                    /\ bus_log' = <<WriteAccess(Latched(registers))>>
                    /\ bus' = bus_write(bus, Latched(registers), registers.memory_buffer)
              /\ (registers'.operation \in DOMAIN ModifyAbsoluteX
                  /\ micro # "ReadOperationCode") =>
                    /\ \A a \in DOMAIN bus :
                          bus'[a] # bus[a] => (micro = "WriteAbsolute" /\ a = target)
                    /\ micro = "WriteAbsolute" =>
                          bus'[target] =
                              (bus[target] + ModifyAbsoluteX[Opcode]) % 256]_vars

\* INC $FFFF,X with X = $01 has wrapped to $0000 and turned the opcode byte
\* $FE there into $FF.
C32_Witness ==
    /\ completed = 1
    /\ ~panicked
    /\ Opcode = \hFE
    /\ CurrentIs("WriteAbsolute")
    /\ registers.x = \h01
    /\ registers.bah = \hFF
    /\ registers.bal = \hFF
    /\ Latched(registers) = 0
    /\ Peek(0) = \hFF

\* The increment and decrement microinstructions: the register each one
\* changes and what it adds to it, modulo 256.
IncDec ==
    ("IncrementMemoryBuffer" :> <<"memory_buffer", 1>>) @@
    ("IncrementX" :> <<"x", 1>>) @@ ("IncrementY" :> <<"y", 1>>) @@
    ("DecrementMemoryBuffer" :> <<"memory_buffer", 255>>) @@
    ("DecrementX" :> <<"x", 255>>) @@ ("DecrementY" :> <<"y", 255>>)

\* C33 as stated: a step() that runs IncrementMemoryBuffer, IncrementX,
\* IncrementY, DecrementMemoryBuffer, DecrementX or DecrementY leaves its
\* target at the old value plus or minus one modulo 256, Zero set iff the new
\* value is 0 and Negative set iff bit 7 of the new value is 1, whatever the
\* other registers hold.
C33_IncDecResultAndFlags ==
    [][(steps' = steps + 1 /\ IsSome(current_micro_instruction')
        /\ Unwrap(current_micro_instruction') \in DOMAIN IncDec) =>
          LET entry == IncDec[Unwrap(current_micro_instruction')]
              result == (registers[entry[1]] + entry[2]) % 256
          IN  /\ ~panicked'
              /\ registers'[entry[1]] = result
              /\ is_flag_set(registers', CPUFlag.Zero) <=> result = 0
              /\ is_flag_set(registers', CPUFlag.Negative) <=> result >= 128]_vars

\* What a left shift of `old` must leave in `r`: the value in `field` and the
\* Carry, Zero and Negative flags.
ShiftedLeft(r, field, old) ==
    /\ r[field] = (old * 2) % 256
    /\ is_flag_set(r, CPUFlag.CarryBit) <=> old >= 128
    /\ is_flag_set(r, CPUFlag.Zero) <=> (old * 2) % 256 = 0
    /\ is_flag_set(r, CPUFlag.Negative) <=> (old * 2) % 256 >= 128

\* C34: ShiftLeftAccumulator and ShiftLeftMemoryBuffer leave (old << 1) mod
\* 256 in A resp. MB, Carry = old bit 7, Zero iff the result is 0, Negative
\* iff bit 7 of the result is 1: in every step() that runs one of them, and
\* for each of the 256 inputs put into the register file the CPU starts
\* from; the WriteZeroPage of ASL zero-page ($06) writes the shifted byte to
\* the operand address, from which it was read.
C34_ShiftLeft ==
    [][(steps' = steps + 1) =>
          /\ CurrentIs("ShiftLeftAccumulator")' =>
                ~panicked' /\ ShiftedLeft(registers', "a", registers.a)
          /\ CurrentIs("ShiftLeftMemoryBuffer")' =>
                ~panicked' /\ ShiftedLeft(registers', "memory_buffer",
                                          registers.memory_buffer)
          /\ steps = 0 =>
                \A v \in Byte :
                    /\ ShiftedLeft(shift_left_accumulator([registers EXCEPT !.a = v]),
                                   "a", v)
                    /\ ShiftedLeft(shift_left_memory_buffer(
                                       [registers EXCEPT !.memory_buffer = v]),
                                   "memory_buffer", v)
          /\ (CurrentIs("WriteZeroPage")' /\ registers'.operation = \h06) =>
                LET address == Peek(fetch_pc + 1) IN
                /\ ~panicked'
                /\ bus_log' = <<WriteAccess(address)>>
                /\ bus'[address] = (bus[address] * 2) % 256
                /\ \A a \in DOMAIN bus \ {address} : bus'[a] = bus[a]]_vars

\* ASL A with A = $80 has run: A = $00, Carry and Zero set, Negative clear.
C34_Witness ==
    /\ completed = 1
    /\ ~panicked
    /\ Opcode = \h0A
    /\ CurrentIs("ShiftLeftAccumulator")
    /\ start_registers.a = \h80
    /\ registers.a = 0
    /\ is_flag_set(registers, CPUFlag.CarryBit)
    /\ is_flag_set(registers, CPUFlag.Zero)
    /\ ~is_flag_set(registers, CPUFlag.Negative)

(***************************************************************************)
(* Properties of the state a new CPU starts from.                            *)
(***************************************************************************)
\* C35 as stated: during the first instruction of a CPU built by CPU::new,
\* the stack pointer is $FF before and after ReadOperationCode and
\* DecodeOperation, and a PushAccumulator then stores A at $01FF and leaves
\* the stack pointer at $FE.
C35_StackPointerStartsAtFF ==
    [][(steps' = steps + 1 /\ completed = 0 /\ ~panicked') =>
          /\ (CurrentIs("ReadOperationCode")' \/ CurrentIs("DecodeOperation")') =>
                /\ registers.stack_ptr = \hFF
                /\ registers'.stack_ptr = \hFF
          /\ CurrentIs("PushAccumulator")' =>
                /\ bus_log' = <<WriteAccess(\h01FF)>>
                /\ Peek(\h01FF)' = registers.a
                /\ registers'.stack_ptr = \hFE]_vars

(***************************************************************************)
(* Properties of the PPUADDR increment.                                      *)
(***************************************************************************)
\* The increment PPUCTRL selects: 32 when bit 2 is set, 1 when it is clear.
SelectedIncrement(ctrl) == IF (ctrl \div 4) % 2 = 1 THEN 32 ELSE 1

\* PPUADDR after increment_addr on the PPU `p` set to address `address` and
\* PPUCTRL `ctrl`.
IncrementedFrom(p, address, ctrl) ==
    PPUAddr_read(increment_addr(
        [p EXCEPT !.ppu_addr = [high_addr |-> address \div 256,
                                low_addr |-> address % 256],
                  !.ppu_ctrl = ctrl]).ppu_addr)

\* C36: the PPUADDR increment adds 1 when PPUCTRL bit 2 is clear and 32 when
\* it is set, carrying into the high byte and wrapping in 14 bits: a read of
\* $2007 leaves PPUADDR at (p + inc) mod $4000, and so does increment_addr
\* for each of the $4000 values of p under either setting of bit 2.
C36_IncrementWrapsIn14Bits ==
    [][(ppu_ops' = ppu_ops + 1) =>
          /\ (PpuJustRead(\h2007) /\ ~panicked') =>
                PPUAddr_read(ppu'.ppu_addr) =
                    (PpuAddr + SelectedIncrement(ppu.ppu_ctrl)) % 16384
          /\ ppu_ops = 0 =>
                \A p \in 0..16383 : \A ctrl \in {\h00, \h04, \hFB, \hFF} :
                    IncrementedFrom(ppu, p, ctrl)
                        = (p + SelectedIncrement(ctrl)) % 16384]_vars

\* With PPUCTRL = $06 a read of $2007 at PPUADDR = $3FFF has wrapped to $001F.
C36_Witness ==
    /\ ppu_ops = 4
    /\ ~panicked
    /\ ppu_last.kind = "read"
    /\ ppu.ppu_ctrl = \h06
    /\ ppu_addr_writes = 2
    /\ PpuAddr = \h001F

(***************************************************************************)
(* Properties of the iNES mapper number.                                     *)
(***************************************************************************)
\* C37 as stated: the mapper number of a loaded iNES file is
\* (Flags 7 & $F0) | (Flags 6 >> 4): the high nibble of Flags 7 (header
\* byte 7) is its high nibble and the high nibble of Flags 6 (header byte 6)
\* its low nibble.
C37_MapperFromNibbles ==
    InesLoaded =>
        LET flags_6 == file.header[7]
            flags_7 == file.header[8]
        IN  cartridge.result.value.mapper
                = (flags_7 \div 16) * 16 + flags_6 \div 16

(***************************************************************************)
(* Properties of the scheduler's cursors and of the length of an            *)
(* instruction.                                                              *)
(***************************************************************************)
\* The sequence execute_step would take its next microinstruction from.
ActiveSequence == registers[get_operation_field(registers)]

\* C38: while the CPU runs supported opcodes, in the Execution state a
\* decoded operation sequence exists, the cursor of the sequence
\* execute_step reads next is below that sequence's length, and the fetch
\* cursor is 0; in the Fetching state the fetch cursor is 0 or 1.
C38_CursorsInRange ==
    /\ (state = "Execution" /\ Opcode \in SupportedOpcodes) =>
          /\ IsSome(registers.decoded_operation)
          /\ IsSome(ActiveSequence)
          /\ Unwrap(ActiveSequence).idx < Len(Unwrap(ActiveSequence).sequence)
          /\ fetching_operation.idx = 0
    /\ state = "Fetching" => fetching_operation.idx \in {0, 1}

\* LDA (zp,X) in the Execution state with its addressing sequence exhausted
\* and the operation sequence, at cursor 0, as the active one.
C38_Witness ==
    /\ state = "Execution"
    /\ ~panicked
    /\ Opcode = \hA1
    /\ IsSome(registers.decoded_addressing_mode)
    /\ is_completed(Unwrap(registers.decoded_addressing_mode))
    /\ get_operation_field(registers) = "decoded_operation"
    /\ Unwrap(registers.decoded_operation).idx = 0

\* Length of a decoded sequence, 0 when the instruction has none.
DecodedLength(decoded) == IF IsSome(decoded) THEN Len(Unwrap(decoded).sequence) ELSE 0

\* step() calls an instruction with the decoded sequences of `r` takes.
InstructionSteps(r) ==
    2 + DecodedLength(r.decoded_addressing_mode) + DecodedLength(r.decoded_operation)

\* C39 as stated: every supported instruction terminates in a fixed number
\* of ticks: once its opcode is decoded no step() of it aborts, and the
\* step() that brings the CPU back to Fetching is exactly the one numbered
\* 2 + length(addressing sequence) + length(operation sequence), counted
\* from the start of the fetch, whatever the registers and the memory hold
\* (no extra step when an indexed sum crosses a page).
C39_FixedNumberOfSteps ==
    [][(steps' = steps + 1 /\ ~CurrentIs("ReadOperationCode")'
        /\ registers'.operation \in SupportedOpcodes) =>
          /\ ~panicked'
          /\ state' = "Fetching"
                <=> steps' - fetch_steps' = InstructionSteps(registers')
          /\ completed' = completed + 1 <=> state' = "Fetching"]_vars

(***************************************************************************)
(* Properties of the status register.                                        *)
(***************************************************************************)
\* The microinstructions that may change Zero and Negative only.
ZeroNegativeOnly ==
    {"LoadAccumulator", "LoadX", "LoadY", "And"} \cup DOMAIN IncDec

\* The microinstructions that may change Carry, Zero and Negative only.
CarryZeroNegativeOnly == {"ShiftLeftAccumulator", "ShiftLeftMemoryBuffer"}

\* The microinstructions that may change no bit of P: the fetch pair, Empty
\* and the bus reads and writes of the addressing modes and stores.
StatusPreserving ==
    {"ReadOperationCode", "DecodeOperation", "Empty"}
    \cup (BusMicroInstructions
          \ {"PushAccumulator", "PushStatusRegister", "PullAccumulator",
             "PullStatusRegister"})

\* The bits of P a microinstruction may change.
MayChange(micro) ==
    CASE micro \in ZeroNegativeOnly -> CPUFlag.Zero + CPUFlag.Negative
      [] micro \in CarryZeroNegativeOnly ->
            CPUFlag.CarryBit + CPUFlag.Zero + CPUFlag.Negative
      [] micro \in StatusPreserving -> 0
      [] OTHER -> 255

====
